---- MODULE Spec2Model ----
(***************************************************************************)
(* Room state machine and question supply of the NCERT timer-study server  *)
(* (server.js): the socket handlers createRoom, joinRoom, startGame,       *)
(* playerDone, hostRevealAnswer, hostNext and disconnect over the          *)
(* process-wide `rooms` table, together with selectQuestions and the       *)
(* three question tiers it draws from.                                     *)
(***************************************************************************)
EXTENDS Integers, Sequences, FiniteSets, TLC

\* ------------------------------------------------------------------ bounds

\* Socket ids.  A socket id is never reused: the sockets are connected at
\* the start and each disconnects at most once.
SocketIds == {"s1", "s2"}

\* Sockets that send createRoom.
HostInputs == {"s1"}

\* Room ids createRoomId can produce (any of them, live or not).
RoomIds == {"R1"}

\* Player names sent with joinRoom.
NameInputs == {"Ann"}

\* Number of room objects created over a run.
MaxCreates == 1

\* Number of room objects created over a run of SpecRooms.
MaxRooms == 2

\* Date.now() runs from 1 to MaxTime.
MaxTime == 2

\* Highest questionIndex from which hostNext is still taken.
MaxIndex == 5

\* Suspended hostNext continuations per room object.
MaxInFlight == 3

\* Size of the pool of ids makeId draws from.
MaxLive == 6

\* ------------------------------------------------------ program constants

\* requestedRounds = 5, the initial batch of an unlimited room (createRoom).
InitialBatch == 5

\* parseInt(rounds, 10) || 5 in createRoom and selectQuestions.
DefaultRounds == 5

\* hostNext fetches when questions.length - questionIndex <= 2 ...
RefillThreshold == 2

\* ... and asks for 5 more.
RefillBatch == 5

\* timeoutMs of the provider call (30000 ms), in steps of the clock.
AiTimeout == 1

\* generateQuestionsFallback gives up after count * 12 attempts.
AttemptFactor == 12

\* gemini.generateQuestions caps its result at 30.
AiMaxCount == 30

\* ------------------------------------------------------------ small helpers

Max(a, b) == IF a >= b THEN a ELSE b

Min(a, b) == IF a <= b THEN a ELSE b

Range(f) == {f[x] : x \in DOMAIN f}

\* f without the key k (JS `delete f[k]`).
Without(f, k) == [x \in DOMAIN f \ {k} |-> f[x]]

\* f with f[k] = v (JS `f[k] = v`).
With(f, k, v) == [x \in DOMAIN f \cup {k} |-> IF x = k THEN v ELSE f[x]]

EmptyMap == [x \in {} |-> 0]

RECURSIVE Factorial(_)
Factorial(n) == IF n <= 1 THEN 1 ELSE n * Factorial(n - 1)

\* ---------------------------------------------------------- question source

BankId(n) == [kind |-> "bank", n |-> n]

LiveId(n) == [kind |-> "live", n |-> n]

AiId(n) == [kind |-> "ai", n |-> n]

\* An absent or non-string id of an entry read from a pack file or from the
\* provider's response.
NoId == [kind |-> "", n |-> 0]

QUESTION_TYPES == {"long", "short", "mcq", "numerical"}

\* A question of type mcq carries options and correctOption; the others do not.
McqQuestion(id, g, s, c, correct) ==
    [id |-> id, grade |-> g, subject |-> s, chapter |-> c, type |-> "mcq",
     source |-> "exemplar", question |-> <<"question", id>>,
     options |-> <<"o1", "o2", "o3", "o4">>, correctOption |-> correct,
     answer |-> <<"answer", id>>, keywords |-> <<"keywords", id>>]

PlainQuestion(id, g, s, c, type, source) ==
    [id |-> id, grade |-> g, subject |-> s, chapter |-> c, type |-> type,
     source |-> source, question |-> <<"question", id>>,
     answer |-> <<"answer", id>>, keywords |-> <<"keywords", id>>]

\* The static bank: the first two entries of the source's bank and one of
\* another subject.
QUESTION_BANK ==
    << McqQuestion(BankId(1), 9, "Mathematics", "Number Systems", 3),
       PlainQuestion(BankId(2), 9, "Mathematics", "Number Systems", "long", "ncert"),
       PlainQuestion(BankId(3), 9, "Science", "Matter in Our Surroundings", "short", "ncert") >>

\* shuffleArray: Fisher-Yates from the last index down; the random index j
\* of step i (0-based, j in 0..i) is digit i of `seed` in the factorial
\* number system, so the seeds 0..n!-1 give the n! permutations.
RECURSIVE shuffleFrom(_, _, _)
shuffleFrom(arr, i, seed) ==
    IF i < 1 THEN arr
    ELSE LET j == (seed \div Factorial(i)) % (i + 1)
             swapped == [arr EXCEPT ![i + 1] = arr[j + 1], ![j + 1] = arr[i + 1]]
         IN  shuffleFrom(swapped, i - 1, seed)

shuffleArray(arr, seed) == shuffleFrom(arr, Len(arr) - 1, seed)

\* makeId: the id drawn at the given attempt; `seed` is the random source.
makeId(seed, attempt) == LiveId(((seed + attempt - 1) % MaxLive) + 1)

\* The question generateQuestionsFallback builds in one attempt.
fallbackQuestion(g, s, c, seed, attempt) ==
    PlainQuestion(makeId(seed, attempt), g, s,
                  IF s \in {"Mathematics", "Science", "Social Science"} \/ c # ""
                  THEN c ELSE "General",
                  "short", "practice")

\* A loop that never looks at excludeIds.
RECURSIVE fallbackLoop_noExclude(_, _, _, _, _, _, _, _)
fallbackLoop_noExclude(g, s, c, count, seed, out, attempts, excludeIds) ==
    IF ~(Len(out) < count /\ attempts < count * AttemptFactor)
    THEN [out |-> out, attempts |-> attempts]
    ELSE fallbackLoop_noExclude(g, s, c, count, seed,
                                Append(out, fallbackQuestion(g, s, c, seed, attempts + 1)),
                                attempts + 1, excludeIds)

\* A loop that takes the question of its last attempt whatever its id.
RECURSIVE fallbackLoop_lastResort(_, _, _, _, _, _, _, _)
fallbackLoop_lastResort(g, s, c, count, seed, out, attempts, excludeIds) ==
    IF ~(Len(out) < count /\ attempts < count * AttemptFactor)
    THEN [out |-> out, attempts |-> attempts]
    ELSE LET q == fallbackQuestion(g, s, c, seed, attempts + 1)
         IN  IF q.id \in excludeIds /\ attempts + 1 < count * AttemptFactor
             THEN fallbackLoop_lastResort(g, s, c, count, seed, out, attempts + 1,
                                          excludeIds)
             ELSE fallbackLoop_lastResort(g, s, c, count, seed, Append(out, q),
                                          attempts + 1, excludeIds \cup {q.id})

\* The loop of generateQuestionsFallback: out, attempts and excludeIds are
\* its locals.  It yields out and the attempts made.
RECURSIVE fallbackLoop(_, _, _, _, _, _, _, _)
fallbackLoop(g, s, c, count, seed, out, attempts, excludeIds) ==
    IF ~(Len(out) < count /\ attempts < count * AttemptFactor)
    THEN [out |-> out, attempts |-> attempts]
    ELSE LET q == fallbackQuestion(g, s, c, seed, attempts + 1)
         IN  IF q.id \in excludeIds
             THEN fallbackLoop(g, s, c, count, seed, out, attempts + 1, excludeIds)
             ELSE fallbackLoop(g, s, c, count, seed, Append(out, q), attempts + 1,
                               excludeIds \cup {q.id})

generateQuestionsFallback(g, s, c, count, excludeIds, seed) ==
    fallbackLoop(g, s, c, count, seed, <<>>, 0, excludeIds).out

\* Keeps the entries of qs whose id is neither in excludeIds nor earlier in qs.
RECURSIVE dedupe(_, _, _)
dedupe(qs, excludeIds, limit) ==
    IF qs = <<>> \/ limit <= 0 THEN <<>>
    ELSE IF Head(qs).id \in excludeIds
         THEN dedupe(Tail(qs), excludeIds, limit)
         ELSE <<Head(qs)>> \o dedupe(Tail(qs), excludeIds \cup {Head(qs).id}, limit - 1)

\* makeId(`ai-g${grade}`) for the k-th entry of a response: a fresh id.
AiLiveId(k) == [kind |-> "ai-live", n |-> k]

isNonEmpty(v) == v # ""

\* The fields validateAndNormalizeQuestion returns for every type: the id
\* of the entry, or a fresh one when it has none.
normalizedFields(q, k) ==
    [id |-> IF q.id = NoId THEN AiLiveId(k) ELSE q.id, grade |-> q.grade,
     subject |-> q.subject, chapter |-> q.chapter, type |-> q.type,
     source |-> q.source, question |-> q.question, answer |-> q.answer,
     keywords |-> q.keywords]

\* A validation that lets an entry without an answer pass.
validateAndNormalizeQuestion_noAnswer(q, k) ==
    IF q.type \notin QUESTION_TYPES \/ q.question = <<>> THEN <<>>
    ELSE <<normalizedFields(q, k)>>

\* validateAndNormalizeQuestion on the k-th entry of the provider's
\* response: the normalised question, or nothing when the entry is
\* rejected.  q.type is the type after normalizeType, <<>> an empty question
\* or answer; grade, subject, chapter and source are taken as the provider
\* sent them.
validateAndNormalizeQuestion(q, k) ==
    IF q.type \notin QUESTION_TYPES THEN <<>>
    ELSE IF q.question = <<>> THEN <<>>
    ELSE IF q.answer = <<>> THEN <<>>
    ELSE IF q.type # "mcq" THEN <<normalizedFields(q, k)>>
    ELSE IF Len(SelectSeq(q.options, isNonEmpty)) < 4 THEN <<>>
    ELSE IF q.correctOption < 1 \/ q.correctOption > 4 THEN <<>>
    ELSE << normalizedFields(q, k)
            @@ [options |-> SubSeq(SelectSeq(q.options, isNonEmpty), 1, 4),
                correctOption |-> q.correctOption] >>

\* The loop of gemini.generateQuestions over the entries of the response,
\* from the k-th on: out and seen are its locals.
RECURSIVE geminiLoop(_, _, _, _, _)

\* One pass of the loop body on the validated entry `normalized`.
geminiLoopBody(arr, k, n, seen, out, normalized) ==
    IF normalized = <<>> \/ normalized[1].id \in seen
    THEN geminiLoop(Tail(arr), k + 1, n, seen, out)
    ELSE geminiLoop(Tail(arr), k + 1, n, seen \cup {normalized[1].id},
                    out \o normalized)

geminiLoop(arr, k, n, seen, out) ==
    IF arr = <<>> \/ Len(out) >= n THEN out
    ELSE geminiLoopBody(arr, k, n, seen, out,
                        validateAndNormalizeQuestion(Head(arr), k))

\* gemini.generateQuestions on a provider response: ai.ok = FALSE is a call
\* that throws (no credential use, HTTP error, abort on timeout); otherwise
\* the entries that pass validation are de-duplicated by id and cut at n.
geminiGenerateQuestions(ai, count) ==
    LET n == Max(1, Min(AiMaxCount, IF count = 0 THEN DefaultRounds ELSE count))
    IN  geminiLoop(ai.questions, 1, n, {}, <<>>)

\* A provider tier that answers a failed call with a placeholder question.
generateQuestionsAI_placeholder(enabled, ai, count, excludeIds) ==
    IF ~enabled \/ ~ai.ok
    THEN <<PlainQuestion(AiId(0), 0, "", "", "short", "AI Generated")>>
    ELSE dedupe(ai.questions, excludeIds, count)

\* generateQuestionsAI: nothing when Gemini is not enabled or the call
\* throws; otherwise the generated questions not in excludeIds.
generateQuestionsAI(enabled, ai, count, excludeIds) ==
    IF ~enabled THEN <<>>
    ELSE IF ~ai.ok THEN <<>>
    ELSE dedupe(geminiGenerateQuestions(ai, count), excludeIds, count + AiMaxCount)

IdsOf(qs) == {qs[i].id : i \in DOMAIN qs}

\* A bank filter that does not look at the chapter.
bankMatches_anyChapter(q, grade, subject, chapter, questionType) ==
    /\ (grade # 0 => q.grade = grade)
    /\ (subject # "" => q.subject = subject)
    /\ (questionType # "" => q.type = questionType)

\* The bank filter of selectQuestions: a falsy filter field (0, "") is skipped.
bankMatches(q, grade, subject, chapter, questionType) ==
    /\ (grade # 0 => q.grade = grade)
    /\ (subject # "" => q.subject = subject)
    /\ (chapter # "" => q.chapter = chapter)
    /\ (questionType # "" => q.type = questionType)

\* The tiers of selectQuestions.  p = [grade, subject, chapter, useAi];
\* rounds is the parsed round count; ai is the provider's response should it
\* be called; rnd = [shuf, id] are the random sources of shuffleArray and
\* makeId.  exclude1 and exclude2 are excludeIds as the bank tier and the
\* fallback tier find it (the provider tier finds it empty).
selectTiersFrom(bank, p, rounds, questionType, enabled, ai, rnd) ==
    LET requested == Max(1, IF rounds = 0 THEN DefaultRounds ELSE rounds)
        g == IF p.grade = 0 THEN 10 ELSE p.grade
        s == IF p.subject = "" THEN "Mathematics" ELSE p.subject
        c == p.chapter
        generated == IF p.useAi
                     THEN generateQuestionsAI(enabled, ai, requested, {})
                     ELSE <<>>
        selected1 == generated
        exclude1 == IdsOf(generated)
        matches(q) == /\ bankMatches(q, p.grade, p.subject, p.chapter, questionType)
                      /\ q.id \notin exclude1
        filtered == shuffleArray(SelectSeq(bank, matches), rnd.shuf)
        needed2 == requested - Len(selected1)
        fromBank == IF Len(selected1) < requested
                    THEN SubSeq(filtered, 1, Min(needed2, Len(filtered)))
                    ELSE <<>>
        selected2 == selected1 \o fromBank
        exclude2 == exclude1 \cup IdsOf(fromBank)
        fallback == IF Len(selected2) < requested
                    THEN generateQuestionsFallback(g, s, c, requested - Len(selected2),
                                                   exclude2, rnd.id)
                    ELSE <<>>
    IN  [generated |-> generated, exclude1 |-> exclude1, fromBank |-> fromBank,
         exclude2 |-> exclude2, fallback |-> fallback]

\* The tiers of selectQuestions over the bank as the source ships it, with
\* no question pack merged.
selectTiers(p, rounds, questionType, enabled, ai, rnd) ==
    selectTiersFrom(QUESTION_BANK, p, rounds, questionType, enabled, ai, rnd)

\* A selection that puts the bank's picks before the provider's.
selectQuestions_bankFirst(p, rounds, questionType, enabled, ai, rnd) ==
    LET t == selectTiers(p, rounds, questionType, enabled, ai, rnd)
    IN  t.fromBank \o t.generated \o t.fallback

\* selectQuestions: the questions it returns.
selectQuestions(p, rounds, questionType, enabled, ai, rnd) ==
    LET t == selectTiers(p, rounds, questionType, enabled, ai, rnd)
    IN  t.generated \o t.fromBank \o t.fallback

\* -------------------------------------------------------------------- state

VARIABLES
    sockets,        \* socket id -> "open" | "closed"
    geminiEnabled,  \* gemini.isGeminiEnabled(): GEMINI_API_KEY is set
    now,            \* Date.now()
    rooms,          \* the registry `rooms`: room id -> room object
    heap,           \* room object -> its fields
    created,        \* number of room objects allocated so far
    channel,        \* socket.io rooms: room id -> sockets that joined it
    pendingCreate,  \* createRoom handlers suspended in `await selectQuestions`
    pendingNext,    \* room object -> hostNext handlers suspended in the fetch
    out,            \* the events emitted by the last step, in order
    crashed,        \* a handler threw outside any try: the process is gone
    hist            \* room object -> what has been broadcast for it so far

vars == <<sockets, geminiEnabled, now, rooms, heap, created, channel,
          pendingCreate, pendingNext, out, crashed, hist>>

\* JS null and undefined, as values no time, answer or option takes.
Null == -1

Undefined == 0

\* The string 'Unlimited' that totalRounds holds in an unlimited room, as a
\* value no round count takes.
Unlimited == -2

\* Answers a client sends with playerDone.
AnswerInputs == {Undefined, 1, 3}

\* totalRounds values a client sends with createRoom (-1 asks for unlimited).
RoundInputs == {-1, 1, 2}

\* Filters a client sends with createRoom.
FilterInputs ==
    { [grade |-> 9, subject |-> "Mathematics", chapter |-> "Number Systems"] }

\* Provider responses: a call that throws, a response that is malformed or
\* no array (no entries), and one generated question.
AiInputs ==
    { [ok |-> FALSE, questions |-> <<>>],
      [ok |-> TRUE, questions |-> <<>>],
      [ok |-> TRUE,
       questions |-> << PlainQuestion(AiId(1), 9, "Mathematics", "Number Systems",
                                      "short", "AI Generated") >>] }

\* Random sources: the shuffle seed and the makeId seed.
RndInputs == { [shuf |-> 0, id |-> 0], [shuf |-> 1, id |-> 3] }

Open(c) == sockets[c] = "open"

\* ------------------------------------------------------------ room helpers

\* room.players is an object keyed by socket id; its entries keep their
\* insertion order.  It is held as a sequence of [id, name].
playerIds(room) == {room.players[i].id : i \in DOMAIN room.players}

\* room.players[socket.id] is set.
isPlayer(room, c) == c \in playerIds(room)

\* room.players[c] = { id: c, name }: a new key goes last, an existing key
\* keeps its place.
setPlayer(players, c, name) ==
    IF \E i \in DOMAIN players : players[i].id = c
    THEN [i \in DOMAIN players |->
            IF players[i].id = c THEN [id |-> c, name |-> name] ELSE players[i]]
    ELSE Append(players, [id |-> c, name |-> name])

isNotSocket(c, entry) == entry.id # c

\* delete room.players[c]
deletePlayer(players, c) ==
    LET keep(entry) == isNotSocket(c, entry) IN SelectSeq(players, keep)

\* A public view that also sends the answer.
publicQuestion_withAnswer(q) ==
    [question |-> q.question, type |-> q.type, diagramUrl |-> Null,
     imageSearchQuery |-> Null, source |-> q.source, answer |-> q.answer]
    @@ (IF "options" \in DOMAIN q THEN "options" :> q.options ELSE EmptyMap)

\* The fields questionStarted and getPublicRoomState show of a question.
\* A field whose value is undefined is not sent.
publicQuestion(q) ==
    [question |-> q.question, type |-> q.type, diagramUrl |-> Null,
     imageSearchQuery |-> Null, source |-> q.source]
    @@ (IF "options" \in DOMAIN q THEN "options" :> q.options ELSE EmptyMap)

\* The question fields of showAnswer.
revealedQuestion(q) ==
    publicQuestion(q)
    @@ [answer |-> q.answer, keywords |-> q.keywords]
    @@ (IF "correctOption" \in DOMAIN q
        THEN "correctOption" :> q.correctOption ELSE EmptyMap)

currentQuestion(room) == room.questions[room.questionIndex + 1]

questionStartedPayload(room) ==
    [questionIndex |-> room.questionIndex + 1, totalRounds |-> room.totalRounds,
     startTime |-> room.startTime]
    @@ publicQuestion(currentQuestion(room))

\* times[player.name] = room.finishTimes[id] || null, over the players in
\* insertion order (a later player of the same name overwrites).
RECURSIVE timesOf(_, _, _)
timesOf(players, finishTimes, acc) ==
    IF players = <<>> THEN acc
    ELSE LET p == Head(players)
             t == IF p.id \in DOMAIN finishTimes /\ finishTimes[p.id] # 0
                  THEN finishTimes[p.id] ELSE Null
         IN  timesOf(Tail(players), finishTimes, With(acc, p.name, t))

\* correct: answer === q.correctOption for mcq, null otherwise.
correctness(q, answer) ==
    IF q.type = "mcq"
    THEN (IF "correctOption" \in DOMAIN q /\ answer = q.correctOption
          THEN "true" ELSE "false")
    ELSE "null"

RECURSIVE playerAnswersOf(_, _, _, _)
playerAnswersOf(players, answers, q, acc) ==
    IF players = <<>> THEN acc
    ELSE LET p == Head(players)
         IN  playerAnswersOf(Tail(players), answers, q,
                IF p.id \in DOMAIN answers
                THEN With(acc, p.name, [answer |-> answers[p.id],
                                        correct |-> correctness(q, answers[p.id])])
                ELSE acc)

showAnswerPayload(room, times, playerAnswers) ==
    [questionIndex |-> room.questionIndex + 1, totalRounds |-> room.totalRounds,
     finishTimes |-> times, playerAnswers |-> playerAnswers]
    @@ revealedQuestion(currentQuestion(room))

getPublicRoomState(room) ==
    [questionIndex |-> room.questionIndex, totalRounds |-> room.totalRounds,
     state |-> room.state, players |-> room.players,
     currentQuestion |->
        IF room.state \in {"in_question", "showing_answer"}
        THEN publicQuestion(currentQuestion(room)) ELSE <<>>]

\* A reset that keeps the submitted answers of the round before.
resetRound_keepsAnswers(room, t) ==
    [room EXCEPT !.state = "in_question", !.done = {}, !.finishTimes = EmptyMap,
                 !.startTime = t]

\* The per-round tracking reset of startGame and hostNext.
resetRound(room, t) ==
    [room EXCEPT !.state = "in_question", !.done = {}, !.finishTimes = EmptyMap,
                 !.answers = EmptyMap, !.startTime = t]

\* "Check if all players done"
allDone(room) == Cardinality(room.done) >= Len(room.players)

\* The end test one round early.
gameShouldEnd_early(room) ==
    ~room.isUnlimited /\ room.questionIndex + 1 >= room.totalRounds

\* "Check if game should end (only if NOT unlimited)"
gameShouldEnd(room) ==
    ~room.isUnlimited /\ room.questionIndex >= room.totalRounds

\* A refill test that also refills the queue of a fixed-round room.
needsRefill_anyRoom(room) ==
    Len(room.questions) - room.questionIndex <= RefillThreshold

\* A refill test that waits for the last buffered question.
needsRefill_late(room) ==
    room.isUnlimited /\ Len(room.questions) - room.questionIndex <= 1

\* "If we are near the end of the question buffer, fetch more"
needsRefill(room) ==
    room.isUnlimited /\ Len(room.questions) - room.questionIndex <= RefillThreshold

\* A removal that leaves the connection in done.
removePlayer_keepsDone(room, c) ==
    [room EXCEPT !.players = deletePlayer(room.players, c),
                 !.finishTimes = Without(room.finishTimes, c),
                 !.answers = Without(room.answers, c)]

\* A removal that leaves the connection's answer behind.
removePlayer_keepsAnswer(room, c) ==
    [room EXCEPT !.players = deletePlayer(room.players, c),
                 !.done = room.done \ {c},
                 !.finishTimes = Without(room.finishTimes, c)]

\* The player branch of disconnect.
removePlayer(room, c) ==
    [room EXCEPT !.players = deletePlayer(room.players, c),
                 !.done = room.done \ {c},
                 !.finishTimes = Without(room.finishTimes, c),
                 !.answers = Without(room.answers, c)]

\* ------------------------------------------------------------------ emits

\* io.to(roomId).emit: delivered to the sockets in the socket.io room ch[rid].
toRoom(ch, rid, ev, payload) ==
    [ev |-> ev, to |-> [kind |-> "room", id |-> rid], rcpt |-> ch[rid],
     payload |-> payload]

\* socket.emit and io.to(socketId).emit: delivered to that socket if it is
\* still connected.
toSocket(sk, c, ev, payload) ==
    [ev |-> ev, to |-> [kind |-> "socket", id |-> c],
     rcpt |-> IF sk[c] = "open" THEN {c} ELSE {}, payload |-> payload]

\* ---------------------------------------------------------------- history

\* hist[o] counts what was broadcast for room object o: the accepted
\* startGames (up to OnceCap: none, one, more than one), the showAnswers
\* since the last questionStarted, and, while the room has had no second
\* startGame, the questionStarted and gameOver broadcasts with the
\* totalRounds of the last gameOver.  Counts saturate at their caps.
StartedCap == 6

OnceCap == 2

NewHist == [started |-> 0, startGames |-> 0, shown |-> 0, over |-> 0,
            overTotal |-> 0]

Counted(h, e) ==
    CASE e.ev = "questionStarted" ->
            [h EXCEPT !.started = Min(@ + 1, StartedCap), !.shown = 0]
    []   e.ev = "showAnswer" -> [h EXCEPT !.shown = Min(@ + 1, OnceCap)]
    []   e.ev = "gameOver" ->
            [h EXCEPT !.over = Min(@ + 1, OnceCap),
                      !.overTotal = e.payload.totalRounds]
    []   OTHER -> h

\* hist after the events `evs` were emitted for a room object.
RECURSIVE Recorded(_, _)
Recorded(h, evs) ==
    IF evs = <<>> THEN h
    ELSE LET h1 == Counted(h, Head(evs))
         IN  Recorded(IF h.startGames >= OnceCap
                      THEN [h EXCEPT !.shown = h1.shown] ELSE h1,
                      Tail(evs))

\* hist after an accepted startGame that emitted evs.
Restarted(h, evs) ==
    IF h.startGames + 1 >= OnceCap
    THEN [NewHist EXCEPT !.startGames = OnceCap]
    ELSE [Recorded(h, evs) EXCEPT !.startGames = h.startGames + 1]

\* ------------------------------------------------------------------- heap

\* A room object stays in the heap while the registry or a suspended
\* hostNext handler refers to it.
Reachable(rs, pn) == Range(rs) \cup {o \in DOMAIN pn : pn[o] > 0}

Collect(f, rs, pn) == [o \in DOMAIN f \cap Reachable(rs, pn) |-> f[o]]

Live(rid) == rid \in DOMAIN rooms

Room(rid) == heap[rooms[rid]]

\* --------------------------------------------------------------- Init

Init ==
    /\ sockets = [c \in SocketIds |-> "open"]
    /\ geminiEnabled \in BOOLEAN
    /\ now = 1
    /\ rooms = EmptyMap
    /\ heap = EmptyMap
    /\ created = 0
    /\ channel = [rid \in RoomIds |-> {}]
    /\ pendingCreate = {}
    /\ pendingNext = EmptyMap
    /\ out = <<>>
    /\ crashed = FALSE
    /\ hist = EmptyMap

\* The clock advances.  A timer that is due fires first: the clock does not
\* pass the timeout of a provider call that is still pending.
Tick ==
    /\ now < MaxTime
    /\ \A pc \in pendingCreate : now - pc.at < AiTimeout
    /\ now' = now + 1
    /\ out' = <<>>
    /\ UNCHANGED <<sockets, geminiEnabled, crashed, rooms, heap, created, channel,
                   pendingCreate, pendingNext, hist>>

\* A handler that returns at its guard: nothing changes, nothing is emitted.
Dropped ==
    /\ out' = <<>>
    /\ UNCHANGED <<sockets, geminiEnabled, crashed, now, rooms, heap, created, channel,
                   pendingCreate, pendingNext, hist>>

\* ------------------------------------------------------------- createRoom

\* parseInt(totalRounds, 10) || 5, and the unlimited flag.
parseRounds(totalRounds) ==
    LET parsed == IF totalRounds = 0 THEN DefaultRounds ELSE totalRounds
    IN  [isUnlimited |-> parsed = -1,
         requestedRounds |-> IF parsed = -1 THEN InitialBatch ELSE parsed]

newRoom(pc, questions) ==
    [id |-> pc.roomId, hostId |-> pc.socket, hostName |-> "Host",
     players |-> IF pc.playAsHost
                 THEN <<[id |-> pc.socket, name |-> "Host (Host)"]>> ELSE <<>>,
     questions |-> questions, questionIndex |-> 0,
     totalRounds |-> IF pc.isUnlimited THEN Unlimited ELSE Len(questions),
     isUnlimited |-> pc.isUnlimited, filterParams |-> pc.filterParams,
     done |-> {}, finishTimes |-> EmptyMap, answers |-> EmptyMap,
     state |-> "waiting", startTime |-> Null]

\* createRoom from `await selectQuestions` on: pc holds the handler's locals.
createRoomFinish(pc, ai, rnd, pcs) ==
    LET questions == selectQuestions(pc.filterParams, pc.requestedRounds, "",
                                     geminiEnabled, ai, rnd)
        o == created + 1
        rs == With(rooms, pc.roomId, o)
        ch == IF Open(pc.socket)
              THEN [channel EXCEPT ![pc.roomId] = @ \cup {pc.socket}] ELSE channel
    IN  /\ pendingCreate' = pcs
        /\ IF questions = <<>>
           THEN /\ out' = <<toSocket(sockets, pc.socket, "errorMessage",
                                     [message |-> "No questions found for selected filters."])>>
                /\ UNCHANGED <<rooms, heap, created, channel, pendingNext, hist>>
           ELSE /\ rooms' = rs
                /\ created' = o
                /\ heap' = Collect(With(heap, o, newRoom(pc, questions)), rs, pendingNext)
                /\ hist' = Collect(With(hist, o, NewHist), rs, pendingNext)
                /\ pendingNext' = Collect(With(pendingNext, o, 0), rs, pendingNext)
                /\ channel' = ch
                /\ out' = <<toSocket(sockets, pc.socket, "roomCreated",
                                     [roomId |-> pc.roomId, joinUrl |-> Null,
                                      totalRounds |-> Len(questions),
                                      hostName |-> "Host"])>>
        /\ UNCHANGED <<sockets, geminiEnabled, crashed, now>>

\* socket.on('createRoom').  The handler suspends in selectQuestions only
\* when the provider is called (useAi with Gemini enabled); otherwise the
\* await resumes before any other event is handled.
createRoom(c, rid, totalRounds, filter, useAi, playAsHost, rnd) ==
    LET parsed == parseRounds(totalRounds)
        pc == [socket |-> c, roomId |-> rid, isUnlimited |-> parsed.isUnlimited,
               requestedRounds |-> parsed.requestedRounds,
               filterParams |-> [grade |-> filter.grade, subject |-> filter.subject,
                                 chapter |-> filter.chapter, useAi |-> useAi],
               playAsHost |-> playAsHost, at |-> now]
    IN  /\ Open(c)
        /\ IF useAi /\ geminiEnabled
           THEN /\ pc \notin pendingCreate
                /\ pendingCreate' = pendingCreate \cup {pc}
                /\ out' = <<>>
                /\ UNCHANGED <<sockets, geminiEnabled, crashed, now, rooms, heap, created,
                               channel, pendingNext, hist>>
           ELSE createRoomFinish(pc, [ok |-> FALSE, questions |-> <<>>], rnd,
                                 pendingCreate)

\* A provider call whose late response is used all the same.
arrived_late(at, ai) == ai

\* What the provider call started at time `at` yields when it returns now:
\* the provider's response ai, or, once the timer of callGemini has fired,
\* the abort (a call that throws).
arrived(at, ai) ==
    IF now - at >= AiTimeout THEN [ok |-> FALSE, questions |-> <<>>] ELSE ai

\* The provider call of a suspended createRoom returns (or throws).
createRoomResume(pc, ai, rnd) ==
    /\ pc \in pendingCreate
    /\ createRoomFinish(pc, arrived(pc.at, ai), rnd, pendingCreate \ {pc})

\* A handler that changes the fields of room object o to `room` and emits evs.
Update(o, room, evs) ==
    /\ heap' = [heap EXCEPT ![o] = room]
    /\ hist' = [hist EXCEPT ![o] = Recorded(@, evs)]
    /\ out' = evs
    /\ UNCHANGED <<sockets, geminiEnabled, crashed, now, rooms, created, channel,
                   pendingCreate, pendingNext>>

\* --------------------------------------------------------------- joinRoom

\* name?.trim() || 'Player'
playerName(name) == IF name = "" THEN "Player" ELSE name

\* room.questions[room.questionIndex] is defined.
questionInRange(room) ==
    room.questionIndex >= 0 /\ room.questionIndex < Len(room.questions)

\* getPublicRoomState reads q.question of an undefined q: it throws.
publicStateThrows(room) ==
    room.state \in {"in_question", "showing_answer"} /\ ~questionInRange(room)

\* A host test that never recognises the host.
isHost_never(room, c) == FALSE

\* "room.hostId === socket.id" of joinRoom
isHost(room, c) == room.hostId = c

\* socket.on('joinRoom')
joinRoom(c, rid, name) ==
    /\ Open(c)
    /\ IF ~Live(rid)
       THEN /\ out' = <<toSocket(sockets, c, "errorMessage",
                                 [message |-> "Room not found."])>>
            /\ UNCHANGED <<sockets, geminiEnabled, crashed, now, rooms, heap, created,
                           channel, pendingCreate, pendingNext, hist>>
       ELSE IF isHost(Room(rid), c)
       THEN /\ out' = <<toSocket(sockets, c, "errorMessage",
                                 [message |-> "You are the host."])>>
            /\ UNCHANGED <<sockets, geminiEnabled, crashed, now, rooms, heap, created,
                           channel, pendingCreate, pendingNext, hist>>
       ELSE LET o == rooms[rid]
                room == [heap[o] EXCEPT
                            !.players = setPlayer(@, c, playerName(name))]
                update == toSocket(sockets, room.hostId, "playerListUpdate",
                                   [players |-> room.players])
            IN  /\ heap' = [heap EXCEPT ![o] = room]
                /\ channel' = [channel EXCEPT ![rid] = @ \cup {c}]
                /\ IF publicStateThrows(room)
                   THEN /\ out' = <<update>>
                        /\ crashed' = TRUE
                   ELSE /\ out' = <<update,
                                    toSocket(sockets, c, "joinedRoom",
                                             [roomId |-> rid,
                                              playerName |-> playerName(name),
                                              state |-> getPublicRoomState(room)])>>
                        /\ UNCHANGED crashed
                /\ UNCHANGED <<sockets, geminiEnabled, now, rooms, created,
                               pendingCreate, pendingNext, hist>>

\* -------------------------------------------------------------- startGame

\* The guard of startGame.
startGameAccepted(c, rid) == Live(rid) /\ Room(rid).hostId = c

\* socket.on('startGame')
startGame(c, rid) ==
    /\ Open(c)
    /\ IF ~startGameAccepted(c, rid) THEN Dropped
       ELSE LET o == rooms[rid]
                room == [resetRound(heap[o], now) EXCEPT !.questionIndex = 0]
                evs == <<toRoom(channel, rid, "questionStarted",
                                questionStartedPayload(room))>>
            IN  /\ heap' = [heap EXCEPT ![o] = room]
                /\ hist' = [hist EXCEPT ![o] = Restarted(@, evs)]
                /\ out' = evs
                /\ UNCHANGED <<sockets, geminiEnabled, crashed, now, rooms, created,
                               channel, pendingCreate, pendingNext>>

\* ------------------------------------------------------------- playerDone
\* The guards without the repeat test.
playerDoneAccepted_repeat(c, rid) ==
    /\ Live(rid)
    /\ Room(rid).state = "in_question"
    /\ isPlayer(Room(rid), c)

\* The guards of playerDone.
playerDoneAccepted(c, rid) ==
    /\ Live(rid)
    /\ Room(rid).state = "in_question"
    /\ isPlayer(Room(rid), c)
    /\ c \notin Room(rid).done

\* room.done.add, room.finishTimes[...] = ..., room.answers[...] = answer
recordDone(room, c, answer, t) ==
    [room EXCEPT !.done = @ \cup {c},
                 !.finishTimes = With(@, c, t - room.startTime),
                 !.answers = IF answer # Undefined THEN With(@, c, answer) ELSE @]

\* socket.on('playerDone')
playerDone(c, rid, answer) ==
    /\ Open(c)
    /\ IF ~playerDoneAccepted(c, rid) THEN Dropped
       ELSE LET o == rooms[rid]
                marked == recordDone(heap[o], c, answer, now)
            IN  IF allDone(marked)
                THEN LET room == [marked EXCEPT !.state = "showing_answer"]
                         q == currentQuestion(room)
                     IN  Update(o, room,
                            <<toRoom(channel, rid, "showAnswer",
                                showAnswerPayload(room,
                                    timesOf(room.players, room.finishTimes, EmptyMap),
                                    playerAnswersOf(room.players, room.answers, q,
                                                    EmptyMap)))>>)
                ELSE Update(o, marked, <<>>)

\* ------------------------------------------------------- hostRevealAnswer

\* The guards without the player count.
hostRevealAccepted_withPlayers(c, rid) ==
    /\ Live(rid)
    /\ Room(rid).hostId = c
    /\ Room(rid).state = "in_question"

\* The guards of hostRevealAnswer.
hostRevealAccepted(c, rid) ==
    /\ Live(rid)
    /\ Room(rid).hostId = c
    /\ Room(rid).state = "in_question"
    /\ ~(Len(Room(rid).players) > 0)

\* socket.on('hostRevealAnswer')
hostRevealAnswer(c, rid) ==
    /\ Open(c)
    /\ IF ~hostRevealAccepted(c, rid) THEN Dropped
       ELSE LET o == rooms[rid]
                room == [heap[o] EXCEPT !.state = "showing_answer"]
            IN  Update(o, room,
                    <<toRoom(channel, rid, "showAnswer",
                             showAnswerPayload(room, EmptyMap, EmptyMap))>>)

\* --------------------------------------------------------------- hostNext

\* The guards without the host test.
hostNextAccepted_anyone(c, rid) ==
    /\ Live(rid)
    /\ Room(rid).state = "showing_answer"

\* The guards without the state test.
hostNextAccepted_anyState(c, rid) ==
    /\ Live(rid)
    /\ Room(rid).hostId = c

\* The guards of hostNext.
hostNextAccepted(c, rid) ==
    /\ Live(rid)
    /\ Room(rid).hostId = c
    /\ Room(rid).state = "showing_answer"

\* room.questionIndex += 1
advance(room) == [room EXCEPT !.questionIndex = @ + 1]

\* A push of every fetched question.
pushNew_all(room, newQuestions) ==
    [room EXCEPT !.questions = @ \o newQuestions]

\* "Filter duplicates just in case": the new questions whose id is not
\* already in the queue are pushed.
pushNew(room, newQuestions) ==
    LET existingIds == IdsOf(room.questions)
        isNew(nq) == nq.id \notin existingIds
    IN  [room EXCEPT !.questions = @ \o SelectSeq(newQuestions, isNew)]

\* hostNext from the finished-or-next decision on, for a room that was
\* (refilled = TRUE) or was not refilled.
nextOrFinish(room, refilled, ch, t) ==
    IF refilled /\ room.questionIndex >= Len(room.questions)
    THEN [room |-> [room EXCEPT !.state = "finished"],
          evs |-> <<toRoom(ch, room.id, "gameOver",
                           [totalRounds |-> room.questionIndex])>>]
    ELSE LET started == resetRound(room, t)
         IN  [room |-> started,
              evs |-> <<toRoom(ch, room.id, "questionStarted",
                               questionStartedPayload(started))>>]

\* socket.on('hostNext').  The refill suspends the handler only when the
\* provider is called (the room's useAi with Gemini enabled).
hostNext(c, rid, rnd) ==
    /\ Open(c)
    /\ IF ~hostNextAccepted(c, rid) THEN Dropped
       ELSE LET o == rooms[rid]
                room == advance(heap[o])
            IN  /\ heap[o].questionIndex < MaxIndex
                /\ IF gameShouldEnd(room)
                   THEN Update(o, [room EXCEPT !.state = "finished"],
                               <<toRoom(channel, rid, "gameOver",
                                        [totalRounds |-> room.totalRounds])>>)
                   ELSE IF ~needsRefill(room)
                   THEN LET r == nextOrFinish(room, FALSE, channel, now)
                        IN  Update(o, r.room, r.evs)
                   ELSE IF room.filterParams.useAi /\ geminiEnabled
                   THEN /\ pendingNext[o] < MaxInFlight
                        /\ heap' = [heap EXCEPT ![o] = room]
                        /\ pendingNext' = [pendingNext EXCEPT ![o] = @ + 1]
                        /\ out' = <<>>
                        /\ UNCHANGED <<sockets, geminiEnabled, crashed, now, rooms,
                                       created, channel, pendingCreate, hist>>
                   ELSE LET fetched == selectQuestions(room.filterParams, RefillBatch,
                                           "", geminiEnabled,
                                           [ok |-> FALSE, questions |-> <<>>], rnd)
                            r == nextOrFinish(pushNew(room, fetched), TRUE, channel, now)
                        IN  Update(o, r.room, r.evs)

\* The provider call of a suspended hostNext returns (or throws): the
\* handler goes on with the room object it holds, registered or not.
hostNextResume(o, ai, rnd) ==
    /\ o \in DOMAIN pendingNext
    /\ pendingNext[o] > 0
    /\ LET fetched == selectQuestions(heap[o].filterParams, RefillBatch, "",
                                      geminiEnabled, ai, rnd)
           r == nextOrFinish(pushNew(heap[o], fetched), TRUE, channel, now)
           pn == [pendingNext EXCEPT ![o] = @ - 1]
       IN  /\ pendingNext' = Collect(pn, rooms, pn)
           /\ heap' = Collect([heap EXCEPT ![o] = r.room], rooms, pn)
           /\ hist' = Collect([hist EXCEPT ![o] = Recorded(@, r.evs)], rooms, pn)
           /\ out' = r.evs
           /\ UNCHANGED <<sockets, geminiEnabled, crashed, now, rooms, created,
                          channel, pendingCreate>>

\* ------------------------------------------------------------- disconnect
\* A host branch that tells the room but keeps it registered.
closeRoom_keepsRoom(st, rid, ch) ==
    [rooms |-> st.rooms, heap |-> st.heap,
     evs |-> Append(st.evs, toRoom(ch, rid, "errorMessage",
                                   [message |-> "Host disconnected."]))]

\* The host branch of disconnect: the room is told and deleted.
closeRoom(st, rid, ch) ==
    [rooms |-> Without(st.rooms, rid), heap |-> st.heap,
     evs |-> Append(st.evs, toRoom(ch, rid, "errorMessage",
                                   [message |-> "Host disconnected."]))]

\* The player branch of disconnect: the player is removed and the host told.
leaveRoom(st, rid, c, sk) ==
    LET o == st.rooms[rid]
        left == removePlayer(st.heap[o], c)
    IN  [rooms |-> st.rooms, heap |-> [st.heap EXCEPT ![o] = left],
         evs |-> Append(st.evs, toSocket(sk, left.hostId, "playerListUpdate",
                                         [players |-> left.players]))]

\* The loop of disconnect over Object.entries(rooms): st = [rooms, heap,
\* evs] after the entries in `rids` have been visited.
RECURSIVE disconnectLoop(_, _, _, _, _)
disconnectLoop(c, rids, st, sk, ch) ==
    IF rids = {} THEN st
    ELSE LET rid == CHOOSE x \in rids : TRUE
             room == st.heap[st.rooms[rid]]
             st2 == IF room.hostId = c THEN closeRoom(st, rid, ch)
                    ELSE IF isPlayer(room, c) THEN leaveRoom(st, rid, c, sk)
                    ELSE st
         IN  disconnectLoop(c, rids \ {rid}, st2, sk, ch)

\* socket.on('disconnect'): the socket has left its socket.io rooms when
\* the handler runs.
disconnect(c) ==
    /\ Open(c)
    /\ LET sk == [sockets EXCEPT ![c] = "closed"]
           ch == [rid \in DOMAIN channel |-> channel[rid] \ {c}]
           st == disconnectLoop(c, DOMAIN rooms,
                                [rooms |-> rooms, heap |-> heap, evs |-> <<>>], sk, ch)
       IN  /\ sockets' = sk
           /\ channel' = ch
           /\ rooms' = st.rooms
           /\ heap' = Collect(st.heap, st.rooms, pendingNext)
           /\ hist' = Collect(hist, st.rooms, pendingNext)
           /\ pendingNext' = Collect(pendingNext, st.rooms, pendingNext)
           /\ out' = st.evs
           /\ UNCHANGED <<geminiEnabled, crashed, now, created, pendingCreate>>

\* ------------------------------------------------------------------- Next

\* Answers sent in the runs of Spec: none, and the right option of the
\* bank's mcq question.
CoreAnswerInputs == {Undefined, 3}

\* The random sources of room creation in the runs of Spec (the fetches of
\* hostNext draw from all of RndInputs).
CoreRndInputs == { [shuf |-> 0, id |-> 0] }

\* The runs create at most `limit` room objects, suspended creations counted.
CanCreate(limit) == created + Cardinality(pendingCreate) < limit

\* The whole server at one instant of the clock: fixed and unlimited rooms,
\* with and without the provider.
Next ==
    /\ ~crashed
    /\ \/ \E c \in HostInputs, rid \in RoomIds, totalRounds \in RoundInputs,
             filter \in FilterInputs, useAi \in BOOLEAN, playAsHost \in BOOLEAN,
             rnd \in CoreRndInputs :
               /\ CanCreate(MaxCreates)
               /\ createRoom(c, rid, totalRounds, filter, useAi, playAsHost, rnd)
       \/ \E pc \in pendingCreate, ai \in AiInputs, rnd \in CoreRndInputs :
               createRoomResume(pc, ai, rnd)
       \/ \E c \in SocketIds, rid \in RoomIds, name \in NameInputs :
               joinRoom(c, rid, name)
       \/ \E c \in SocketIds, rid \in RoomIds : startGame(c, rid)
       \/ \E c \in SocketIds, rid \in RoomIds, answer \in CoreAnswerInputs :
               playerDone(c, rid, answer)
       \/ \E c \in SocketIds, rid \in RoomIds : hostRevealAnswer(c, rid)
       \/ \E c \in SocketIds, rid \in RoomIds, rnd \in RndInputs :
               hostNext(c, rid, rnd)
       \/ \E o \in DOMAIN pendingNext, ai \in AiInputs, rnd \in RndInputs :
               hostNextResume(o, ai, rnd)
       \/ \E c \in SocketIds : disconnect(c)

Spec == Init /\ [][Next]_vars

\* ------------------------------------------------------------- SpecRound

\* Fixed-round rooms without the provider, with a running clock, three
\* sockets and every answer.
RoundSockets == {"s1", "s2", "s3"}

FixedRoundInputs == {1, 2}

InitRound ==
    /\ sockets = [c \in RoundSockets |-> "open"]
    /\ geminiEnabled = FALSE
    /\ now = 1
    /\ rooms = EmptyMap
    /\ heap = EmptyMap
    /\ created = 0
    /\ channel = [rid \in RoomIds |-> {}]
    /\ pendingCreate = {}
    /\ pendingNext = EmptyMap
    /\ out = <<>>
    /\ crashed = FALSE
    /\ hist = EmptyMap

NextRound ==
    /\ ~crashed
    /\ \/ Tick
       \/ \E c \in HostInputs, rid \in RoomIds, totalRounds \in FixedRoundInputs,
             filter \in FilterInputs, playAsHost \in BOOLEAN, rnd \in RndInputs :
               /\ CanCreate(MaxCreates)
               /\ createRoom(c, rid, totalRounds, filter, FALSE, playAsHost, rnd)
       \/ \E c \in RoundSockets, rid \in RoomIds, name \in NameInputs :
               joinRoom(c, rid, name)
       \/ \E c \in RoundSockets, rid \in RoomIds : startGame(c, rid)
       \/ \E c \in RoundSockets, rid \in RoomIds, answer \in AnswerInputs :
               playerDone(c, rid, answer)
       \/ \E c \in RoundSockets, rid \in RoomIds : hostRevealAnswer(c, rid)
       \/ \E c \in RoundSockets, rid \in RoomIds, rnd \in RndInputs :
               hostNext(c, rid, rnd)
       \/ \E c \in RoundSockets : disconnect(c)

SpecRound == InitRound /\ [][NextRound]_vars

\* ----------------------------------------------------------- SpecTimeout

\* Fixed-round rooms created with the provider while the clock runs: the
\* provider answers in time, late, or not at all.
InitTimeout == Init /\ geminiEnabled

NextTimeout ==
    /\ ~crashed
    /\ \/ Tick
       \/ \E c \in HostInputs, rid \in RoomIds, totalRounds \in FixedRoundInputs,
             filter \in FilterInputs, playAsHost \in BOOLEAN, rnd \in CoreRndInputs :
               /\ CanCreate(MaxRooms)
               /\ createRoom(c, rid, totalRounds, filter, TRUE, playAsHost, rnd)
       \/ \E pc \in pendingCreate, ai \in AiInputs, rnd \in CoreRndInputs :
               createRoomResume(pc, ai, rnd)
       \/ \E c \in SocketIds, rid \in RoomIds, name \in NameInputs :
               joinRoom(c, rid, name)
       \/ \E c \in SocketIds, rid \in RoomIds : startGame(c, rid)
       \/ \E c \in SocketIds : disconnect(c)

SpecTimeout == InitTimeout /\ [][NextTimeout]_vars

\* ------------------------------------------------------------- SpecRooms

\* Two rooms side by side, with room ids that may repeat: a room asked for
\* under the first id is unlimited and uses the provider, one asked for
\* under the second has one round and does not.  Either socket creates and
\* joins rooms; a host sends startGame from the lobby only.
ManyRoomIds == {"R1", "R2"}

RoomKind(rid) ==
    IF rid = "R1" THEN [totalRounds |-> -1, useAi |-> TRUE]
    ELSE [totalRounds |-> 1, useAi |-> FALSE]

\* The provider call throws.
AiThrows == [ok |-> FALSE, questions |-> <<>>]

\* The answer sent in the runs of SpecRooms: the right option of the mcq.
RoomsAnswerInputs == {3}

InitRooms ==
    /\ sockets = [c \in SocketIds |-> "open"]
    /\ geminiEnabled = TRUE
    /\ now = 1
    /\ rooms = EmptyMap
    /\ heap = EmptyMap
    /\ created = 0
    /\ channel = [rid \in ManyRoomIds |-> {}]
    /\ pendingCreate = {}
    /\ pendingNext = EmptyMap
    /\ out = <<>>
    /\ crashed = FALSE
    /\ hist = EmptyMap

NextRooms ==
    /\ ~crashed
    /\ \/ \E c \in SocketIds, rid \in ManyRoomIds, filter \in FilterInputs,
             rnd \in CoreRndInputs :
               /\ CanCreate(MaxRooms)
               /\ createRoom(c, rid, RoomKind(rid).totalRounds, filter,
                             RoomKind(rid).useAi, FALSE, rnd)
       \/ \E pc \in pendingCreate, rnd \in CoreRndInputs :
               createRoomResume(pc, AiThrows, rnd)
       \/ \E c \in SocketIds, rid \in ManyRoomIds, name \in NameInputs :
               joinRoom(c, rid, name)
       \/ \E c \in SocketIds, rid \in ManyRoomIds :
               /\ Live(rid) => Room(rid).state = "waiting"
               /\ startGame(c, rid)
       \/ \E c \in SocketIds, rid \in ManyRoomIds, answer \in RoomsAnswerInputs :
               playerDone(c, rid, answer)
       \/ \E c \in SocketIds, rid \in ManyRoomIds : hostRevealAnswer(c, rid)
       \/ \E c \in SocketIds, rid \in ManyRoomIds, rnd \in CoreRndInputs :
               hostNext(c, rid, rnd)
       \/ \E o \in DOMAIN pendingNext, rnd \in CoreRndInputs :
               hostNextResume(o, AiThrows, rnd)
       \/ \E c \in SocketIds : disconnect(c)

SpecRooms == InitRooms /\ [][NextRooms]_vars

\* ------------------------------------------------------------ SpecLegacy

\* The earlier server (bank-only selection, no synthetic tier): its
\* createRoom can find no question for the filters.

\* An entry of the bank of the earlier server; every entry is grade 10 and
\* cites https://ncert.nic.in/textbook.php.
legacyQuestion(id, subject, chapter) ==
    [id |-> id, grade |-> 10, subject |-> subject, chapter |-> chapter,
     question |-> <<"question", id>>, answer |-> <<"answer", id>>,
     source |-> [protocol |-> "https:", host |-> "ncert.nic.in"],
     keywords |-> <<"keywords", id>>]

\* The bank of the earlier server.
LEGACY_QUESTION_BANK ==
    << legacyQuestion(1, "Science", "Life Processes"),
       legacyQuestion(2, "Physics", "Force and Laws of Motion"),
       legacyQuestion(3, "Chemistry", "Acids, Bases and Salts") >>

TRUSTED_SOURCE_HOSTS == {"ncert.nic.in"}

\* isTrustedSource, for hosts that are no subdomain of a trusted host.
isTrustedSource(source) ==
    source.protocol = "https:" /\ source.host \in TRUSTED_SOURCE_HOSTS

\* The filter of the earlier selectQuestions: grade 0 stands for an absent
\* grade, "" for an absent subject or chapter.
legacyMatches(q, p) ==
    /\ isTrustedSource(q.source)
    /\ (p.grade # 0 => q.grade = p.grade)
    /\ (p.subject # "" => q.subject = p.subject)
    /\ (p.chapter # "" => q.chapter = p.chapter)

\* selectQuestions of the earlier server.
legacySelectQuestions(p, rounds, seed) ==
    LET matches(q) == legacyMatches(q, p)
        filtered == shuffleArray(SelectSeq(LEGACY_QUESTION_BANK, matches), seed)
        take == Min(Len(filtered), Max(1, IF rounds = 0 THEN 1 ELSE rounds))
    IN  [questions |-> SubSeq(filtered, 1, take), rounds |-> take,
         available |-> Len(filtered)]

\* A rejection emitted with io.emit: it reaches every connected socket.
legacyReject_broadcast(sk, c, message) ==
    [ev |-> "errorMessage", to |-> [kind |-> "all", id |-> c],
     rcpt |-> {x \in DOMAIN sk : sk[x] = "open"}, payload |-> message]

\* socket.emit('errorMessage', message): the earlier server sends the text
\* itself as the payload.
legacyReject(sk, c, message) ==
    toSocket(sk, c, "errorMessage", message)

legacyNewRoom(c, rid, filter, sel) ==
    [id |-> rid, hostId |-> c, hostName |-> "Host", players |-> <<>>,
     questions |-> sel.questions, questionIndex |-> 0, totalRounds |-> sel.rounds,
     done |-> {}, finishTimes |-> EmptyMap, state |-> "waiting", startTime |-> Null,
     filters |-> [grade |-> sel.questions[1].grade, subject |-> filter.subject,
                  chapter |-> filter.chapter, available |-> sel.available]]

\* socket.on('createRoom') of the earlier server.
legacyCreateRoom(c, rid, totalRounds, filter, seed) ==
    LET sel == legacySelectQuestions(filter, totalRounds, seed)
        o == created + 1
        rs == With(rooms, rid, o)
    IN  /\ Open(c)
        /\ IF Len(sel.questions) = 0
           THEN /\ out' = <<legacyReject(sockets, c,
                    "No questions match your Class/Subject/Chapter filters with trusted sources.")>>
                /\ UNCHANGED <<rooms, heap, created, channel, pendingNext, hist>>
           ELSE /\ created < MaxCreates
                /\ rooms' = rs
                /\ created' = o
                /\ heap' = Collect(With(heap, o, legacyNewRoom(c, rid, filter, sel)),
                                   rs, pendingNext)
                /\ hist' = Collect(With(hist, o, NewHist), rs, pendingNext)
                /\ pendingNext' = Collect(With(pendingNext, o, 0), rs, pendingNext)
                /\ channel' = [channel EXCEPT ![rid] = @ \cup {c}]
                /\ out' = <<toSocket(sockets, c, "roomCreated",
                                     [roomId |-> rid, joinUrl |-> Null,
                                      totalRounds |-> sel.rounds,
                                      hostName |-> "Host"])>>
        /\ UNCHANGED <<sockets, geminiEnabled, crashed, now, pendingCreate>>

\* The question fields the earlier server shows before the reveal.
legacyPublicQuestion(q) ==
    [question |-> q.question, grade |-> q.grade, subject |-> q.subject,
     chapter |-> q.chapter, source |-> q.source]

legacyPublicRoomState(room) ==
    [questionIndex |-> room.questionIndex, totalRounds |-> room.totalRounds,
     state |-> room.state, players |-> room.players,
     currentQuestion |->
        IF room.state \in {"in_question", "showing_answer"}
        THEN legacyPublicQuestion(currentQuestion(room)) ELSE <<>>]

\* socket.on('joinRoom') of the earlier server.
legacyJoinRoom(c, rid, name) ==
    /\ Open(c)
    /\ IF ~Live(rid)
       THEN /\ out' = <<legacyReject(sockets, c, "Room not found.")>>
            /\ UNCHANGED <<heap, channel>>
       ELSE IF Room(rid).hostId = c
       THEN /\ out' = <<legacyReject(sockets, c,
                                     "You are already the host of this room.")>>
            /\ UNCHANGED <<heap, channel>>
       ELSE LET o == rooms[rid]
                room == [heap[o] EXCEPT
                            !.players = setPlayer(@, c, playerName(name))]
            IN  /\ heap' = [heap EXCEPT ![o] = room]
                /\ channel' = [channel EXCEPT ![rid] = @ \cup {c}]
                /\ out' = <<toSocket(sockets, room.hostId, "playerListUpdate",
                                     [players |-> room.players]),
                            toSocket(sockets, c, "joinedRoom",
                                     [roomId |-> rid, playerName |-> playerName(name),
                                      state |-> legacyPublicRoomState(room)])>>
    /\ UNCHANGED <<sockets, geminiEnabled, crashed, now, rooms, created,
                   pendingCreate, pendingNext, hist>>

\* socket.on('startGame') of the earlier server.
legacyStartGame(c, rid) ==
    /\ Open(c)
    /\ IF ~(Live(rid) /\ Room(rid).hostId = c) THEN Dropped
       ELSE LET o == rooms[rid]
                room == [heap[o] EXCEPT !.state = "in_question", !.questionIndex = 0,
                                        !.done = {}, !.finishTimes = EmptyMap,
                                        !.startTime = now]
                q == currentQuestion(room)
                evs == <<toRoom(channel, rid, "questionStarted",
                                [questionIndex |-> room.questionIndex + 1,
                                 totalRounds |-> room.totalRounds,
                                 startTime |-> room.startTime]
                                @@ legacyPublicQuestion(q))>>
            IN  /\ heap' = [heap EXCEPT ![o] = room]
                /\ hist' = [hist EXCEPT ![o] = Restarted(@, evs)]
                /\ out' = evs
                /\ UNCHANGED <<sockets, geminiEnabled, crashed, now, rooms, created,
                               channel, pendingCreate, pendingNext>>

\* The loop of the earlier disconnect: the host is told of a leaving player
\* only while the socket.io room still has a member.
RECURSIVE legacyDisconnectLoop(_, _, _, _, _)
legacyDisconnectLoop(c, rids, st, sk, ch) ==
    IF rids = {} THEN st
    ELSE LET rid == CHOOSE x \in rids : TRUE
             o == st.rooms[rid]
             room == st.heap[o]
             left == [room EXCEPT !.players = deletePlayer(room.players, c),
                                  !.done = room.done \ {c},
                                  !.finishTimes = Without(room.finishTimes, c)]
             st2 == IF room.hostId = c
                    THEN [rooms |-> Without(st.rooms, rid), heap |-> st.heap,
                          evs |-> Append(st.evs, toRoom(ch, rid, "errorMessage",
                                    "Host disconnected. Room closed."))]
                    ELSE IF isPlayer(room, c)
                    THEN [rooms |-> st.rooms, heap |-> [st.heap EXCEPT ![o] = left],
                          evs |-> IF ch[rid] # {}
                                  THEN Append(st.evs,
                                         toSocket(sk, left.hostId, "playerListUpdate",
                                                  [players |-> left.players]))
                                  ELSE st.evs]
                    ELSE st
         IN  legacyDisconnectLoop(c, rids \ {rid}, st2, sk, ch)

\* socket.on('disconnect') of the earlier server.
legacyDisconnect(c) ==
    /\ Open(c)
    /\ LET sk == [sockets EXCEPT ![c] = "closed"]
           ch == [rid \in DOMAIN channel |-> channel[rid] \ {c}]
           st == legacyDisconnectLoop(c, DOMAIN rooms,
                    [rooms |-> rooms, heap |-> heap, evs |-> <<>>], sk, ch)
       IN  /\ sockets' = sk
           /\ channel' = ch
           /\ rooms' = st.rooms
           /\ heap' = Collect(st.heap, st.rooms, pendingNext)
           /\ hist' = Collect(hist, st.rooms, pendingNext)
           /\ pendingNext' = Collect(pendingNext, st.rooms, pendingNext)
           /\ out' = st.evs
           /\ UNCHANGED <<geminiEnabled, crashed, now, created, pendingCreate>>

\* Filters sent to the earlier createRoom: absent or given grade and subject.
LegacyFilterInputs ==
    { [grade |-> g, subject |-> s, chapter |-> ""] :
        g \in {0, 9, 10}, s \in {"", "Science", "Mathematics"} }

LegacyRoundInputs == {0, 1, 3}

NextLegacy ==
    \/ \E c \in RoundSockets, rid \in RoomIds, totalRounds \in LegacyRoundInputs,
          filter \in LegacyFilterInputs :
            legacyCreateRoom(c, rid, totalRounds, filter, 0)
    \/ \E c \in RoundSockets, rid \in RoomIds, name \in NameInputs :
            legacyJoinRoom(c, rid, name)
    \/ \E c \in RoundSockets, rid \in RoomIds : legacyStartGame(c, rid)
    \/ \E c \in RoundSockets : legacyDisconnect(c)

SpecLegacy == InitRound /\ [][NextLegacy]_vars

\* ------------------------------------------------------------ SpecGemini

\* gemini.generateQuestions on its own: every call is recorded in `out`.

\* An entry of the provider's response after JSON.parse.
GeminiEntry(id, type, question, answer) ==
    [id |-> id, grade |-> 9, subject |-> "Mathematics",
     chapter |-> "Number Systems", type |-> type, source |-> "AI Generated",
     question |-> question, answer |-> answer, keywords |-> <<"keywords", id>>]

\* Entries of a response: two well-formed ones, one without an id, one of
\* an unknown type, one without a question, one without an answer, a
\* well-formed mcq entry (six options, two of them empty), one with three
\* options and one whose correctOption is 5.
GeminiEntries ==
    LET q(id) == <<"question", id>>
        a(id) == <<"answer", id>>
        mcq(id, options, correct) ==
            GeminiEntry(id, "mcq", q(id), a(id))
            @@ [options |-> options, correctOption |-> correct]
    IN  { GeminiEntry(AiId(1), "short", q(AiId(1)), a(AiId(1))),
          GeminiEntry(AiId(2), "long", q(AiId(2)), a(AiId(2))),
          GeminiEntry(NoId, "numerical", q(NoId), a(NoId)),
          GeminiEntry(AiId(3), "essay", q(AiId(3)), a(AiId(3))),
          GeminiEntry(AiId(3), "short", <<>>, a(AiId(3))),
          GeminiEntry(AiId(3), "short", q(AiId(3)), <<>>),
          mcq(AiId(4), <<"o1", "", "o2", "o3", "", "o4">>, 4),
          mcq(AiId(5), <<"o1", "o2", "o3">>, 3),
          mcq(AiId(5), <<"o1", "o2", "o3", "o4", "o5">>, 5) }

\* A response with more well-formed entries than the cap of 30.
LongResponse ==
    [k \in 1..(AiMaxCount + 2) |->
        GeminiEntry(AiId(k), "short", <<"question", AiId(k)>>, <<"answer", AiId(k)>>)]

\* Responses: no entry, one entry, two entries, and the long one.
GeminiResponses ==
    {<<>>, LongResponse} \cup {<<e>> : e \in GeminiEntries}
    \cup {<<e, f>> : e, f \in GeminiEntries}

\* Counts of a call: one, two, and more than the cap.
GeminiCountInputs == {1, 2, AiMaxCount + 10}

\* One call of gemini.generateQuestions that gets a response.
geminiCall(arr, count) ==
    /\ out = <<>>
    /\ out' = << [ev |-> "generateQuestions", to |-> [kind |-> "caller", id |-> ""],
                  rcpt |-> {},
                  payload |-> [count |-> count, response |-> arr,
                               questions |-> geminiGenerateQuestions(
                                                [ok |-> TRUE, questions |-> arr],
                                                count)]] >>
    /\ UNCHANGED <<sockets, geminiEnabled, crashed, now, rooms, heap, created,
                   channel, pendingCreate, pendingNext, hist>>

NextGemini ==
    \E arr \in GeminiResponses, count \in GeminiCountInputs : geminiCall(arr, count)

SpecGemini == Init /\ [][NextGemini]_vars

\* ---------------------------------------------------------- SpecFallback

\* generateQuestionsFallback on its own: every call is recorded in `out`
\* with the attempts its loop made.

\* The ids makeId can draw.
LivePool == {LiveId(n) : n \in 1..MaxLive}

\* Counts of a call: one, two, and more than the ids makeId can draw.
FallbackCountInputs == {1, 2, MaxLive + 1}

\* Subjects of a call: one with a template generator and one without.
FallbackSubjectInputs == {"Mathematics", "Hindi"}

\* One call of generateQuestionsFallback and what it returned.
fallbackCall(s, count, excludeIds, seed) ==
    LET r == fallbackLoop(9, s, "", count, seed, <<>>, 0, excludeIds)
    IN  /\ out = <<>>
        /\ out' = << [ev |-> "generateQuestionsFallback",
                      to |-> [kind |-> "caller", id |-> ""], rcpt |-> {},
                      payload |-> [count |-> count, excludeIds |-> excludeIds,
                                   attempts |-> r.attempts,
                                   questions |-> generateQuestionsFallback(
                                                    9, s, "", count, excludeIds,
                                                    seed)]] >>
        /\ UNCHANGED <<sockets, geminiEnabled, crashed, now, rooms, heap, created,
                       channel, pendingCreate, pendingNext, hist>>

NextFallback ==
    \E s \in FallbackSubjectInputs, count \in FallbackCountInputs,
       excludeIds \in SUBSET LivePool, seed \in 0..(MaxLive - 1) :
        fallbackCall(s, count, excludeIds, seed)

SpecFallback == Init /\ [][NextFallback]_vars

\* ------------------------------------------------------------ SpecSelect

\* selectQuestions on its own: every call, for any filters, with and without
\* the provider, is recorded in `out` with the tiers it went through.

\* Filters of a call: absent and given grade, subject and chapter, matching
\* and not matching the bank.
SelectFilterInputs ==
    { [grade |-> g, subject |-> s, chapter |-> c] :
        g \in {0, 9, 10}, s \in {"", "Mathematics", "Science", "Hindi"},
        c \in {"", "Number Systems"} }

\* Round counts of a call.  createRoom passes parseInt(totalRounds, 10) || 5
\* and hostNext passes 5, so the count is never absent or 0: a negative
\* count, fewer than, as many as and more than the bank holds, and more
\* than the ids makeId can draw.
SelectRoundInputs == {-3, 1, 2, 3, MaxLive + 1}

\* Provider responses: a call that throws, an empty answer, a new question,
\* one whose id is a bank id, the same id twice, and an id makeId also draws.
SelectAiInputs ==
    LET q(id) == PlainQuestion(id, 9, "Mathematics", "Number Systems", "short",
                               "AI Generated")
    IN  { [ok |-> FALSE, questions |-> <<>>],
          [ok |-> TRUE, questions |-> <<>>],
          [ok |-> TRUE, questions |-> <<q(AiId(1))>>],
          [ok |-> TRUE, questions |-> <<q(BankId(1)), q(AiId(1))>>],
          [ok |-> TRUE, questions |-> <<q(AiId(1)), q(AiId(1)), q(BankId(2))>>],
          [ok |-> TRUE, questions |-> <<q(LiveId(1))>>] }

\* The questionType of a call: absent, and a type the bank holds once.
SelectTypeInputs == {"", "mcq"}

\* One call of selectQuestions and what it returned.  The function keeps
\* nothing between calls, so a behaviour makes one call.
selectCall(filter, rounds, questionType, useAi, ai, rnd) ==
    LET p == [grade |-> filter.grade, subject |-> filter.subject,
              chapter |-> filter.chapter, useAi |-> useAi]
    IN  /\ out = <<>>
        /\ out' = << [ev |-> "selectQuestions",
                      to |-> [kind |-> "caller", id |-> ""], rcpt |-> {},
                      payload |-> [params |-> p, rounds |-> rounds,
                                   questionType |-> questionType,
                                   tiers |-> selectTiers(p, rounds, questionType,
                                                         geminiEnabled, ai, rnd),
                                   questions |-> selectQuestions(p, rounds,
                                                     questionType, geminiEnabled,
                                                     ai, rnd)]] >>
        /\ UNCHANGED <<sockets, geminiEnabled, crashed, now, rooms, heap, created,
                       channel, pendingCreate, pendingNext, hist>>

NextSelect ==
    \E filter \in SelectFilterInputs, rounds \in SelectRoundInputs,
       questionType \in SelectTypeInputs, useAi \in BOOLEAN,
       ai \in SelectAiInputs, rnd \in RndInputs :
        selectCall(filter, rounds, questionType, useAi, ai, rnd)

SpecSelect == Init /\ [][NextSelect]_vars

\* ------------------------------------------------------------- SpecPacks

\* The server starts with a question pack in ./question-packs, merges it
\* into the bank, and selects questions from the merged bank.

PackId(n) == [kind |-> "pack", n |-> n]

\* An entry of a pack file as JSON.parse yields it: <<>> is an absent
\* question or options field, 0 an absent correctOption.
RawEntry(id, type, question, options, correctOption) ==
    [id |-> id, grade |-> 9, subject |-> "Mathematics",
     chapter |-> "Number Systems", type |-> type, source |-> "",
     question |-> question, answer |-> <<"answer", id>>,
     keywords |-> <<"keywords", id>>, options |-> options,
     correctOption |-> correctOption]

\* The checks and the normalisation loadExternalQuestionPacks applies to one
\* entry: the entry it loads, or nothing.
normalizePackEntry(q) ==
    IF \/ q.id = NoId
       \/ q.grade = 0
       \/ q.subject = ""
       \/ q.chapter = ""
       \/ q.type \notin QUESTION_TYPES
       \/ q.question = <<>>
       \/ q.answer = <<>>
    THEN <<>>
    ELSE LET normalized == [id |-> q.id, grade |-> q.grade, subject |-> q.subject,
                            chapter |-> q.chapter, type |-> q.type,
                            source |-> IF q.source = "" THEN "practice" ELSE q.source,
                            question |-> q.question, answer |-> q.answer,
                            keywords |-> q.keywords]
         IN  IF q.type # "mcq" THEN <<normalized>>
             ELSE IF Len(q.options) < 2 THEN <<>>
             ELSE IF q.correctOption < 1 \/ q.correctOption > Len(q.options)
             THEN <<>>
             ELSE << normalized @@ [options |-> q.options,
                                    correctOption |-> q.correctOption] >>

\* loadExternalQuestionPacks over the entries of one pack file.
RECURSIVE loadExternalQuestionPacks(_)
loadExternalQuestionPacks(arr) ==
    IF arr = <<>> THEN <<>>
    ELSE normalizePackEntry(Head(arr)) \o loadExternalQuestionPacks(Tail(arr))

\* The merge at start-up: a loaded question whose id the bank already holds
\* is skipped.
RECURSIVE mergePacks(_, _)
mergePacks(bank, extra) ==
    IF extra = <<>> THEN bank
    ELSE IF Head(extra).id \in IdsOf(bank)
         THEN mergePacks(bank, Tail(extra))
         ELSE mergePacks(Append(bank, Head(extra)), Tail(extra))

\* Entries of a pack file: mcq entries with four, two, five and one option,
\* one with correctOption absent, one that carries a bank id, one without a
\* question, and a short-answer entry.
RawEntries ==
    { RawEntry(PackId(1), "mcq", <<"question", PackId(1)>>,
               <<"o1", "o2", "o3", "o4">>, 2),
      RawEntry(PackId(2), "mcq", <<"question", PackId(2)>>, <<"o1", "o2">>, 2),
      RawEntry(PackId(3), "mcq", <<"question", PackId(3)>>,
               <<"o1", "o2", "o3", "o4", "o5">>, 5),
      RawEntry(PackId(4), "mcq", <<"question", PackId(4)>>, <<"o1">>, 1),
      RawEntry(PackId(1), "mcq", <<"question", PackId(1)>>,
               <<"o1", "o2", "o3", "o4">>, 0),
      RawEntry(BankId(1), "mcq", <<"question", BankId(1)>>, <<"o1", "o2">>, 1),
      RawEntry(PackId(2), "short", <<>>, <<>>, 0),
      RawEntry(PackId(2), "short", <<"question", PackId(2)>>, <<>>, 0) }

\* Pack files of one and of two entries.
PackInputs ==
    {<<e>> : e \in RawEntries} \cup {<<e, f>> : e, f \in RawEntries}

\* Start-up: the pack is loaded and merged into the bank.
loadPacks(pack) ==
    /\ out = <<>>
    /\ out' = << [ev |-> "questionPacks", to |-> [kind |-> "caller", id |-> ""],
                  rcpt |-> {},
                  payload |-> [loaded |-> loadExternalQuestionPacks(pack),
                               bank |-> mergePacks(QUESTION_BANK,
                                           loadExternalQuestionPacks(pack))]] >>
    /\ UNCHANGED <<sockets, geminiEnabled, crashed, now, rooms, heap, created,
                   channel, pendingCreate, pendingNext, hist>>

\* A call of selectQuestions, without the provider, once the server has
\* started.
packSelect(filter, rounds, questionType, rnd) ==
    LET p == [grade |-> filter.grade, subject |-> filter.subject,
              chapter |-> filter.chapter, useAi |-> FALSE]
        t == selectTiersFrom(out[1].payload.bank, p, rounds, questionType,
                             geminiEnabled, [ok |-> FALSE, questions |-> <<>>], rnd)
    IN  /\ out # <<>>
        /\ out[1].ev = "questionPacks"
        /\ out' = << out[1],
                     [ev |-> "selectQuestions", to |-> [kind |-> "caller", id |-> ""],
                      rcpt |-> {},
                      payload |-> [params |-> p, rounds |-> rounds,
                                   questionType |-> questionType, tiers |-> t,
                                   questions |-> t.generated \o t.fromBank
                                                 \o t.fallback]] >>
        /\ UNCHANGED <<sockets, geminiEnabled, crashed, now, rooms, heap, created,
                       channel, pendingCreate, pendingNext, hist>>

\* Filters of the calls after start-up: none, and the pack's chapter.
PackFilterInputs ==
    { [grade |-> 0, subject |-> "", chapter |-> ""],
      [grade |-> 9, subject |-> "Mathematics", chapter |-> "Number Systems"] }

\* Round counts of the calls after start-up: one question, and the whole
\* merged bank.
PackRoundInputs == {1, MaxLive}

NextPacks ==
    \/ \E pack \in PackInputs : loadPacks(pack)
    \/ \E filter \in PackFilterInputs, rounds \in PackRoundInputs,
          questionType \in SelectTypeInputs, rnd \in RndInputs :
            packSelect(filter, rounds, questionType, rnd)

SpecPacks == Init /\ [][NextPacks]_vars

\* ------------------------------------------------------------- properties

\* An event `ev` to the socket.io room rid is among evs.
EmittedTo(evs, ev, rid) ==
    \E i \in DOMAIN evs : evs[i].ev = ev /\ evs[i].to = [kind |-> "room", id |-> rid]

\* C1: showAnswer is broadcast exactly once per round, in the very step in
\* which the number of done players first reaches the number of players of
\* a room with players: a step that takes an in_question room from "not
\* all done" to "all done" with at least one player broadcasts showAnswer
\* and moves the room to showing_answer, no round sees a second showAnswer,
\* and a round that an accepted hostNext ends has had its showAnswer.
C1_ShowAnswerOncePerRound ==
    [][\A o \in DOMAIN heap \cap DOMAIN heap' :
        /\ ( /\ heap[o].state = "in_question"
             /\ Cardinality(heap[o].done) < Len(heap[o].players)
             /\ Len(heap'[o].players) > 0
             /\ Cardinality(heap'[o].done) >= Len(heap'[o].players) )
           => ( /\ EmittedTo(out', "showAnswer", heap[o].id)
                /\ heap'[o].state = "showing_answer" )
        /\ hist'[o].shown <= 1
        /\ ( /\ heap[o].state = "showing_answer"
             /\ heap'[o].questionIndex > heap[o].questionIndex )
           => hist[o].shown = 1
      ]_vars

\* C2: no reachable state has a registered room in state in_question with
\* at least one player and every current player in done.
C2_NoCompleteRoundUnrevealed ==
    \A rid \in DOMAIN rooms :
        ~ ( /\ Room(rid).state = "in_question"
            /\ Len(Room(rid).players) >= 1
            /\ playerIds(Room(rid)) \subseteq Room(rid).done )

\* C3: a fixed-round room with target T that has had one startGame has
\* broadcast no gameOver and questionIndex + 1 questionStarted while it is
\* not finished, and once finished it has broadcast exactly T
\* questionStarted and exactly one gameOver, with totalRounds T.
C3_FixedRoundsRunToTarget ==
    \A o \in DOMAIN heap :
        (~heap[o].isUnlimited /\ hist[o].startGames = 1) =>
            IF heap[o].state = "finished"
            THEN /\ hist[o].started = heap[o].totalRounds
                 /\ hist[o].over = 1
                 /\ hist[o].overTotal = heap[o].totalRounds
            ELSE /\ hist[o].over = 0
                 /\ hist[o].started = heap[o].questionIndex + 1
                 /\ hist[o].started <= heap[o].totalRounds

\* A two-round room with two players has finished after one startGame.
C3_Witness ==
    \E o \in DOMAIN heap :
        /\ ~heap[o].isUnlimited
        /\ heap[o].totalRounds = 2
        /\ heap[o].state = "finished"
        /\ hist[o].startGames = 1
        /\ Len(heap[o].players) = 2

\* The edges of the room state machine of the specification.
SpecEdges ==
    { <<"waiting", "in_question">>, <<"in_question", "showing_answer">>,
      <<"showing_answer", "in_question">>, <<"showing_answer", "finished">> }

\* C4: room.state changes only along waiting -> in_question ->
\* showing_answer -> (in_question | finished), and finished is terminal:
\* a finished room stays finished and no questionStarted is broadcast to it.
C4_StateMachineEdges ==
    [][\A o \in DOMAIN heap \cap DOMAIN heap' :
        /\ heap'[o].state # heap[o].state
           => <<heap[o].state, heap'[o].state>> \in SpecEdges
        /\ heap[o].state = "finished"
           => ( /\ heap'[o].state = "finished"
                /\ ~EmittedTo(out', "questionStarted", heap[o].id) )
      ]_vars

\* C5: questionIndex never decreases over the life of a room, repeated
\* startGame included, and every accepted hostNext leaves it strictly
\* larger.
C5_QuestionIndexMonotonic ==
    [][/\ \A o \in DOMAIN heap \cap DOMAIN heap' :
            heap'[o].questionIndex >= heap[o].questionIndex
       /\ \A c \in DOMAIN sockets, rid \in DOMAIN rooms, rnd \in RndInputs :
            (hostNextAccepted(c, rid) /\ hostNext(c, rid, rnd))
            => /\ rooms[rid] \in DOMAIN heap'
               /\ heap'[rooms[rid]].questionIndex > Room(rid).questionIndex
      ]_vars

\* C6: room.done is a subset of the keys of room.players in every
\* reachable state, for every room object.
C6_DoneWithinPlayers ==
    \A o \in DOMAIN heap : heap[o].done \subseteq playerIds(heap[o])

\* A player has just left a round in which another player is done.
C6_Witness ==
    \E o \in DOMAIN heap :
        /\ heap[o].state = "in_question"
        /\ heap[o].done # {}
        /\ \E c \in DOMAIN sockets : sockets[c] = "closed"
        /\ \E i \in DOMAIN out : out[i].ev = "playerListUpdate"

\* C7: a playerDone from a connection that is not a player of the room, or
\* that is already in done, changes no room and broadcasts nothing: a step
\* that emits something or changes a room is no such playerDone.
C7_PlayerDoneRejected ==
    [][\/ (out' = <<>> /\ UNCHANGED <<rooms, heap, hist, channel>>)
       \/ \A c \in DOMAIN sockets, rid \in DOMAIN rooms, answer \in AnswerInputs :
            (~isPlayer(Room(rid), c) \/ c \in Room(rid).done)
            => ~playerDone(c, rid, answer)
      ]_vars

\* A round is open in which one connected player is done, another is not,
\* and a connected socket is no player of the room.
C7_Witness ==
    \E rid \in DOMAIN rooms :
        /\ Room(rid).state = "in_question"
        /\ \E c \in Room(rid).done : Open(c)
        /\ \E c \in playerIds(Room(rid)) \ Room(rid).done : Open(c)
        /\ \E c \in DOMAIN sockets : Open(c) /\ ~isPlayer(Room(rid), c)
        /\ out = <<>>

\* The fields that only the reveal may carry.
AnswerFields == {"answer", "keywords", "correctOption"}

\* C8: the payloads of questionStarted and joinedRoom (its state and the
\* state's currentQuestion) never carry answer, keywords or correctOption;
\* the only event that carries them is showAnswer.
C8_AnswersOnlyInShowAnswer ==
    \A i \in DOMAIN out :
        /\ out[i].ev = "questionStarted"
           => DOMAIN out[i].payload \cap AnswerFields = {}
        /\ out[i].ev = "joinedRoom"
           => /\ DOMAIN out[i].payload \cap AnswerFields = {}
              /\ DOMAIN out[i].payload.state \cap AnswerFields = {}
              /\ DOMAIN out[i].payload.state.currentQuestion \cap AnswerFields = {}
        /\ DOMAIN out[i].payload \cap AnswerFields # {}
           => out[i].ev = "showAnswer"

\* A multiple-choice question is sent to a player who joins while its
\* answer is shown.
C8_Witness ==
    \E i \in DOMAIN out :
        /\ out[i].ev = "joinedRoom"
        /\ out[i].payload.state.state = "showing_answer"
        /\ "options" \in DOMAIN out[i].payload.state.currentQuestion

\* Socket c disconnects in this step.
Disconnects(c) == sockets[c] = "open" /\ sockets'[c] = "closed"

\* C9: when the host's connection disconnects, in any room state, an
\* errorMessage is broadcast to the room's other members and the room
\* leaves the registry; an event that names a room id absent from the
\* registry changes nothing, and only joinRoom answers it, with
\* 'Room not found.' to the sender.
C9_HostDisconnectClosesRoom ==
    [][/\ \A c \in DOMAIN sockets, rid \in DOMAIN rooms :
            (Disconnects(c) /\ Room(rid).hostId = c)
            => /\ rid \notin DOMAIN rooms'
               /\ \E i \in DOMAIN out' :
                    /\ out'[i].ev = "errorMessage"
                    /\ out'[i].to = [kind |-> "room", id |-> rid]
                    /\ out'[i].rcpt = channel[rid] \ {c}
       /\ \A c \in DOMAIN sockets, rid \in RoomIds \ DOMAIN rooms :
            /\ ( \/ startGame(c, rid)
                 \/ hostRevealAnswer(c, rid)
                 \/ \E answer \in AnswerInputs : playerDone(c, rid, answer)
                 \/ \E rnd \in RndInputs : hostNext(c, rid, rnd) )
               => (out' = <<>> /\ UNCHANGED <<rooms, heap, hist, channel>>)
            /\ (\E name \in NameInputs : joinRoom(c, rid, name))
               => /\ out' = <<toSocket(sockets, c, "errorMessage",
                                       [message |-> "Room not found."])>>
                  /\ UNCHANGED <<rooms, heap, hist, channel>>
      ]_vars

\* The host has just left a started room that a connected player was in.
C9_Witness ==
    /\ rooms = EmptyMap
    /\ created > 0
    /\ \E i \in DOMAIN out :
        /\ out[i].ev = "errorMessage"
        /\ out[i].to.kind = "room"
        /\ out[i].rcpt # {}
    /\ \E c \in DOMAIN sockets : sockets[c] = "closed"

C11_OneReplenishmentInFlight ==
    [][\A o \in DOMAIN heap \cap DOMAIN heap' :
        /\ pendingNext'[o] <= 1
        /\ (pendingNext[o] >= 1 /\ pendingNext'[o] >= pendingNext[o])
           => heap'[o].questionIndex <= heap[o].questionIndex
      ]_vars

\* C12: in every reachable state in which a registered room is in
\* in_question or showing_answer, 0 <= questionIndex < |questions|, also
\* while a hostNext is suspended in its fetch, so that a joinRoom can read
\* the room's public state.
C12_QuestionIndexInRange ==
    /\ ~crashed
    /\ \A rid \in DOMAIN rooms :
        Room(rid).state \in {"in_question", "showing_answer"}
        => /\ 0 <= Room(rid).questionIndex
           /\ Room(rid).questionIndex < Len(Room(rid).questions)

\* C13: startGame, hostNext and hostRevealAnswer sent by a connection other
\* than the room's host leave the room unchanged and cause no broadcast, in
\* every room state: a step that emits something or changes a room is no
\* such event.
C13_OnlyHostControls ==
    [][\/ (out' = <<>> /\ UNCHANGED <<rooms, heap, hist, channel, pendingNext>>)
       \/ \A c \in DOMAIN sockets, rid \in DOMAIN rooms :
            Room(rid).hostId # c
            => ~ ( \/ startGame(c, rid)
                   \/ hostRevealAnswer(c, rid)
                   \/ \E rnd \in RndInputs : hostNext(c, rid, rnd) )
      ]_vars

\* A connected player who is not the host is in a room whose answer is
\* shown, and the last event was dropped.
C13_Witness ==
    \E rid \in DOMAIN rooms :
        /\ Room(rid).state = "showing_answer"
        /\ \E c \in playerIds(Room(rid)) : Open(c) /\ c # Room(rid).hostId
        /\ out = <<>>

\* C14: hostRevealAnswer takes effect only when the room is in in_question
\* with zero players; otherwise (one or more players, a playing host
\* included) it is a no-op; when it takes effect the room moves to
\* showing_answer and the one showAnswer broadcast has empty finishTimes
\* and playerAnswers.
C14_HostRevealOnlySolo ==
    [][\A c \in DOMAIN sockets, rid \in DOMAIN rooms :
        hostRevealAnswer(c, rid)
        => IF /\ Room(rid).hostId = c
              /\ Room(rid).state = "in_question"
              /\ Len(Room(rid).players) = 0
           THEN /\ heap' = [heap EXCEPT ![rooms[rid]].state = "showing_answer"]
                /\ Len(out') = 1
                /\ out'[1].ev = "showAnswer"
                /\ out'[1].to = [kind |-> "room", id |-> rid]
                /\ DOMAIN out'[1].payload.finishTimes = {}
                /\ DOMAIN out'[1].payload.playerAnswers = {}
           ELSE out' = <<>> /\ UNCHANGED <<rooms, heap, hist, channel>>
      ]_vars

\* The host has just revealed the answer of a round of a room without
\* players.
C14_Witness ==
    \E rid \in DOMAIN rooms :
        /\ Room(rid).state = "showing_answer"
        /\ Len(Room(rid).players) = 0
        /\ Len(out) = 1
        /\ out[1].ev = "showAnswer"
        /\ DOMAIN out[1].payload.finishTimes = {}

\* C15: when showAnswer is broadcast for an mcq question, every player of
\* the room who submitted an answer in that round has an entry in
\* playerAnswers, with the answer that player submitted and correct equal
\* to (submitted answer = correctOption).
C15_McqCorrectnessReported ==
    \A rid \in DOMAIN rooms : \A i \in DOMAIN out :
        ( /\ out[i].ev = "showAnswer"
          /\ out[i].to = [kind |-> "room", id |-> rid]
          /\ out[i].payload.type = "mcq" )
        => LET room == Room(rid)
               reported == out[i].payload.playerAnswers
           IN  \A k \in DOMAIN room.players :
                 LET p == room.players[k]
                 IN  p.id \in DOMAIN room.answers
                     => /\ p.name \in DOMAIN reported
                        /\ reported[p.name].answer = room.answers[p.id]
                        /\ reported[p.name].correct =
                             (IF room.answers[p.id] = out[i].payload.correctOption
                              THEN "true" ELSE "false")

\* C16: when question selection returns zero questions, createRoom sends one
\* errorMessage, to the requesting connection only, adds no room to the
\* registry and changes no existing room.
C16_CreateRoomWithoutQuestions ==
    [][\A c \in DOMAIN sockets, rid \in RoomIds, totalRounds \in LegacyRoundInputs,
          filter \in LegacyFilterInputs :
        ( /\ Len(legacySelectQuestions(filter, totalRounds, 0).questions) = 0
          /\ legacyCreateRoom(c, rid, totalRounds, filter, 0) )
        => /\ Len(out') = 1
           /\ out'[1].ev = "errorMessage"
           /\ out'[1].to = [kind |-> "socket", id |-> c]
           /\ out'[1].rcpt = {c}
           /\ UNCHANGED <<rooms, heap, hist, channel, created>>
      ]_vars

\* A createRoom has just failed for want of questions while a room with a
\* player exists.
C16_Witness ==
    /\ \E rid \in DOMAIN rooms : Len(Room(rid).players) > 0
    /\ Len(out) = 1
    /\ out[1].ev = "errorMessage"
    /\ out[1].to.kind = "socket"
    /\ out[1].payload =
         "No questions match your Class/Subject/Chapter filters with trusted sources."

\* C17: a joinRoom for an unknown room id, or from the room's host, sends one
\* errorMessage to the requester only and changes nothing; no step adds a
\* host to the players of its room, and a new room holds its host as a player
\* only if it was created with playAsHost.
C17_JoinRejections ==
    [][/\ \A c \in DOMAIN sockets, rid \in RoomIds :
            ( /\ ~Live(rid) \/ Room(rid).hostId = c
              /\ \E name \in NameInputs : joinRoom(c, rid, name) )
            => /\ Len(out') = 1
               /\ out'[1].ev = "errorMessage"
               /\ out'[1].to = [kind |-> "socket", id |-> c]
               /\ out'[1].rcpt = {c}
               /\ UNCHANGED <<rooms, heap, hist, channel, created>>
       /\ \A o \in DOMAIN heap' :
            isPlayer(heap'[o], heap'[o].hostId)
            => IF o \in DOMAIN heap
               THEN isPlayer(heap[o], heap[o].hostId)
               ELSE \/ \E c \in HostInputs, rid \in RoomIds,
                          totalRounds \in RoundInputs, filter \in FilterInputs,
                          useAi \in BOOLEAN, rnd \in CoreRndInputs :
                            createRoom(c, rid, totalRounds, filter, useAi, TRUE, rnd)
                    \/ \E pc \in pendingCreate, ai \in AiInputs, rnd \in CoreRndInputs :
                            pc.playAsHost /\ createRoomResume(pc, ai, rnd)
      ]_vars

\* The host of a room created without playAsHost has just been refused as a
\* player, while another player is in the room.
C17_Witness ==
    \E rid \in DOMAIN rooms :
        /\ ~isPlayer(Room(rid), Room(rid).hostId)
        /\ Len(Room(rid).players) > 0
        /\ Len(out) = 1
        /\ out[1].ev = "errorMessage"
        /\ out[1].to = [kind |-> "socket", id |-> Room(rid).hostId]
        /\ out[1].payload = [message |-> "You are the host."]

\* The entries of qs have pairwise distinct ids.
DistinctIds(qs) ==
    \A i, j \in DOMAIN qs : qs[i].id = qs[j].id => i = j

\* C18: the ids of the questions in a room's queue are pairwise distinct,
\* after creation and after any number of replenishments, overlapping ones
\* included.
C18_QueueIdsDistinct ==
    \A o \in DOMAIN heap : DistinctIds(heap[o].questions)

\* A replenishment has extended the queue of a room while another hostNext
\* of the same room is still waiting for its own.
C18_Witness ==
    \E o \in DOMAIN heap :
        /\ heap[o].isUnlimited
        /\ Len(heap[o].questions) > InitialBatch
        /\ pendingNext[o] >= 1

\* The selections recorded by the last step.
Selections == {out[i].payload : i \in {k \in DOMAIN out : out[k].ev = "selectQuestions"}}

\* C19: every call of selectQuestions, whatever the filters, with useAi on or
\* off and whatever the provider answers (an answer that reuses a bank id
\* included), returns questions with pairwise distinct ids, and no tier
\* returns a question whose id is in the excludeIds it was given.
C19_SelectionIdsDistinct ==
    \A sel \in Selections :
        /\ DistinctIds(sel.questions)
        /\ IdsOf(sel.tiers.fromBank) \cap sel.tiers.exclude1 = {}
        /\ IdsOf(sel.tiers.fallback) \cap sel.tiers.exclude2 = {}
        /\ sel.questions = sel.tiers.generated \o sel.tiers.fromBank \o sel.tiers.fallback

\* A call took a provider question that carries a bank id, and the bank
\* tier, which matches that bank question, added others.
C19_Witness ==
    \E sel \in Selections :
        /\ BankId(1) \in IdsOf(sel.tiers.generated)
        /\ sel.tiers.fromBank # <<>>
        /\ bankMatches(QUESTION_BANK[1], sel.params.grade, sel.params.subject,
                       sel.params.chapter, "")

\* The step emits exactly one broadcast to room rid, a questionStarted or a
\* gameOver.
AnnouncesNext(evs, rid) ==
    /\ Len(evs) = 1
    /\ evs[1].ev \in {"questionStarted", "gameOver"}
    /\ evs[1].to = [kind |-> "room", id |-> rid]

\* C20: in an unlimited room an accepted hostNext that leaves at most 2
\* unconsumed questions after its increment fetches 5 questions with the
\* room's stored filter parameters, and the fetch has completed when that
\* hostNext broadcasts questionStarted or gameOver: the handler either
\* broadcasts in the same step with the fetched questions pushed, or is
\* suspended in the fetch without a broadcast and broadcasts when the fetch
\* returns.  A fixed-round room never fetches: no handler of it is ever
\* suspended and its queue never changes.
C20_RefillBeforeNextQuestion ==
    [][/\ \A c \in DOMAIN sockets, rid \in DOMAIN rooms, rnd \in RndInputs :
            LET room == advance(Room(rid))
                fetched == selectQuestions(room.filterParams, 5, "", geminiEnabled,
                               [ok |-> FALSE, questions |-> <<>>], rnd)
            IN  ( /\ hostNextAccepted(c, rid)
                  /\ room.isUnlimited
                  /\ Len(room.questions) - room.questionIndex <= 2
                  /\ hostNext(c, rid, rnd) )
                => \/ /\ pendingNext'[rooms[rid]] = pendingNext[rooms[rid]] + 1
                      /\ out' = <<>>
                      /\ heap'[rooms[rid]].questions = room.questions
                   \/ /\ pendingNext' = pendingNext
                      /\ heap'[rooms[rid]].questions = pushNew(room, fetched).questions
                      /\ AnnouncesNext(out', rid)
       /\ \A o \in DOMAIN pendingNext :
            pendingNext[o] > 0
            => \A ai \in AiInputs, rnd \in RndInputs :
                 hostNextResume(o, ai, rnd)
                 => /\ AnnouncesNext(out', heap[o].id)
                    /\ o \in DOMAIN heap'
                       => heap'[o].questions =
                            pushNew(heap[o], selectQuestions(heap[o].filterParams, 5, "",
                                                 geminiEnabled, ai, rnd)).questions
       /\ \A o \in DOMAIN heap :
            ~heap[o].isUnlimited
            => /\ pendingNext[o] = 0
               /\ o \in DOMAIN heap' => heap'[o].questions = heap[o].questions
      ]_vars

\* A suspended hostNext of an unlimited room has returned from its fetch: the
\* queue is longer than the initial batch and the next question has just
\* been announced to the room.
C20_Witness ==
    \E rid \in DOMAIN rooms :
        /\ Room(rid).isUnlimited
        /\ Room(rid).filterParams.useAi /\ geminiEnabled
        /\ Len(Room(rid).questions) > InitialBatch
        /\ Room(rid).state = "in_question"
        /\ Room(rid).questionIndex >= 3
        /\ AnnouncesNext(out, rid)

\* Provider calls that fail: the call throws (missing credential, HTTP
\* error, timeout) or its response holds no usable array.
FailedAiInputs == {ai \in AiInputs : ~ai.ok \/ ai.questions = <<>>}

\* No event of evs is an errorMessage.
NoErrorMessage(evs) == \A i \in DOMAIN evs : evs[i].ev # "errorMessage"

\* The filter parameters p with the provider switched off.
WithoutAi(p) == [p EXCEPT !.useAi = FALSE]

\* C21: a failure of the provider is never surfaced.  A createRoom or a
\* hostNext whose provider call fails (or whose provider has no credential)
\* emits no errorMessage and goes on with exactly the questions the static
\* catalog and the synthetic generator give without the provider.
C21_AiFailureNotSurfaced ==
    [][/\ \A pc \in pendingCreate, ai \in FailedAiInputs, rnd \in CoreRndInputs :
            createRoomResume(pc, ai, rnd)
            => /\ Len(out') = 1
               /\ out'[1].ev = "roomCreated"
               /\ heap'[created'].questions =
                    selectQuestions(WithoutAi(pc.filterParams), pc.requestedRounds, "",
                                    geminiEnabled, ai, rnd)
       /\ \A o \in DOMAIN pendingNext :
            pendingNext[o] > 0
            => \A ai \in FailedAiInputs, rnd \in RndInputs :
                 hostNextResume(o, ai, rnd)
                 => /\ NoErrorMessage(out')
                    /\ o \in DOMAIN heap'
                       => heap'[o].questions =
                            pushNew(heap[o], selectQuestions(WithoutAi(heap[o].filterParams),
                                                 RefillBatch, "", geminiEnabled, ai, rnd)
                                   ).questions
       /\ ~geminiEnabled
          => /\ \A c \in HostInputs, rid \in RoomIds, totalRounds \in RoundInputs,
                   filter \in FilterInputs, playAsHost \in BOOLEAN, rnd \in CoreRndInputs :
                    createRoom(c, rid, totalRounds, filter, TRUE, playAsHost, rnd)
                    => /\ Len(out') = 1
                       /\ out'[1].ev = "roomCreated"
                       /\ heap'[created'].questions =
                            selectQuestions(
                                [grade |-> filter.grade, subject |-> filter.subject,
                                 chapter |-> filter.chapter, useAi |-> FALSE],
                                parseRounds(totalRounds).requestedRounds, "", FALSE,
                                [ok |-> FALSE, questions |-> <<>>], rnd)
             /\ \A c \in DOMAIN sockets, rid \in DOMAIN rooms, rnd \in RndInputs :
                    ( /\ hostNextAccepted(c, rid)
                      /\ Room(rid).filterParams.useAi
                      /\ hostNext(c, rid, rnd) )
                    => NoErrorMessage(out')
      ]_vars

\* A room asked for with the provider, whose call failed, exists with the
\* questions of the catalog and the generator; its creation has just been
\* acknowledged.
C21_Witness ==
    /\ geminiEnabled
    /\ \E rid \in DOMAIN rooms :
        /\ Room(rid).filterParams.useAi
        /\ \A i \in DOMAIN Room(rid).questions : Room(rid).questions[i].id.kind # "ai"
        /\ Len(out) = 1
        /\ out[1].ev = "roomCreated"

\* Room B is registered after the step as before it, with the same fields,
\* in a process that is still running, and the step broadcasts nothing to it.
Untouched(B) ==
    /\ ~crashed'
    /\ B \in DOMAIN rooms'
    /\ rooms'[B] = rooms[B]
    /\ heap'[rooms[B]] = heap[rooms[B]]
    /\ hist'[rooms[B]] = hist[rooms[B]]
    /\ \A i \in DOMAIN out' : out'[i].to # [kind |-> "room", id |-> B]

\* C22: a startGame, playerDone, hostRevealAnswer, hostNext or joinRoom
\* addressed to room A leaves every other room B as it was and broadcasts
\* nothing to B; a disconnect leaves every room untouched in which the
\* disconnecting connection is neither host nor player.
C22_RoomsIsolated ==
    [][\/ (out' = <<>> /\ UNCHANGED <<rooms, heap, hist, crashed>>)
       \/ /\ \A c \in DOMAIN sockets, A \in ManyRoomIds :
               ( \/ startGame(c, A)
                 \/ hostRevealAnswer(c, A)
                 \/ \E answer \in RoomsAnswerInputs : playerDone(c, A, answer)
                 \/ \E rnd \in CoreRndInputs : hostNext(c, A, rnd)
                 \/ \E name \in NameInputs : joinRoom(c, A, name) )
               => \A B \in DOMAIN rooms \ {A} : Untouched(B)
          /\ \A o \in DOMAIN pendingNext :
               ( /\ pendingNext[o] > 0
                 /\ \E rnd \in CoreRndInputs : hostNextResume(o, AiThrows, rnd) )
               => \A B \in DOMAIN rooms \ {heap[o].id} : Untouched(B)
          /\ \A c \in DOMAIN sockets :
               disconnect(c)
               => \A B \in DOMAIN rooms :
                    (Room(B).hostId # c /\ ~isPlayer(Room(B), c)) => Untouched(B)
      ]_vars

\* C23: creating a room never replaces or alters an existing room: after a
\* step that creates a room, every room registered before is still
\* registered under its id, as the same room with the same fields.
C23_CreateKeepsRooms ==
    [][created' > created
       => \A B \in DOMAIN rooms :
            /\ B \in DOMAIN rooms'
            /\ rooms'[B] = rooms[B]
            /\ rooms[B] \in DOMAIN heap'
            /\ heap'[rooms[B]] = heap[rooms[B]]
      ]_vars

\* C24: startGame takes effect only in waiting: a startGame from the host
\* of a room in in_question, showing_answer or finished leaves the room's
\* questionIndex, done, finishTimes, answers and state unchanged and
\* broadcasts no questionStarted.
C24_StartGameOnlyInWaiting ==
    [][\A c \in DOMAIN sockets, rid \in DOMAIN rooms :
        ( /\ Room(rid).hostId = c
          /\ Room(rid).state # "waiting"
          /\ startGame(c, rid) )
        => /\ heap'[rooms[rid]].questionIndex = Room(rid).questionIndex
           /\ heap'[rooms[rid]].done = Room(rid).done
           /\ heap'[rooms[rid]].finishTimes = Room(rid).finishTimes
           /\ heap'[rooms[rid]].answers = Room(rid).answers
           /\ heap'[rooms[rid]].state = Room(rid).state
           /\ \A i \in DOMAIN out' : out'[i].ev # "questionStarted"
      ]_vars

\* The step changes no room and emits nothing.
Silent ==
    /\ out' = <<>>
    /\ UNCHANGED <<rooms, heap, hist, channel, pendingNext, crashed>>

\* C25: a playerDone or hostRevealAnswer for a room that is not in
\* in_question, a hostNext for a room that is not in showing_answer, and a
\* startGame, playerDone, hostRevealAnswer or hostNext that names an unknown
\* room id change no room and emit nothing, no errorMessage either.
C25_WrongStateDropped ==
    [][\/ Silent
       \/ \A c \in DOMAIN sockets, rid \in RoomIds :
            /\ (Live(rid) => Room(rid).state # "in_question")
               => /\ \A answer \in CoreAnswerInputs : ~playerDone(c, rid, answer)
                  /\ ~hostRevealAnswer(c, rid)
            /\ (Live(rid) => Room(rid).state # "showing_answer")
               => \A rnd \in RndInputs : ~hostNext(c, rid, rnd)
            /\ ~Live(rid) => ~startGame(c, rid)
      ]_vars

\* The answer of a later round of a room is revealed, a connected player is
\* in the room, no hostNext is suspended and the last step emitted nothing.
C25_Witness ==
    \E rid \in DOMAIN rooms :
        /\ Room(rid).state = "showing_answer"
        /\ \E c \in playerIds(Room(rid)) : Open(c)
        /\ Room(rid).questionIndex >= 1
        /\ out = <<>>
        /\ pendingNext[rooms[rid]] = 0

\* C26: the replenishment fetch of an unlimited room excludes the ids
\* already in the room's queue: no question the fetch returns has an id that
\* is in the queue, and the fetch appends at least one question whenever it
\* returns any.
C26_RefillExcludesQueue ==
    [][/\ \A c \in DOMAIN sockets, rid \in DOMAIN rooms, rnd \in RndInputs :
            LET room == advance(Room(rid))
                fetched == selectQuestions(room.filterParams, RefillBatch, "",
                               geminiEnabled, [ok |-> FALSE, questions |-> <<>>], rnd)
            IN  ( /\ hostNextAccepted(c, rid)
                  /\ needsRefill(room)
                  /\ ~(room.filterParams.useAi /\ geminiEnabled)
                  /\ hostNext(c, rid, rnd) )
                => /\ IdsOf(fetched) \cap IdsOf(room.questions) = {}
                   /\ fetched # <<>>
                      => Len(heap'[rooms[rid]].questions) > Len(room.questions)
       /\ \A o \in DOMAIN pendingNext :
            pendingNext[o] > 0
            => \A ai \in AiInputs, rnd \in RndInputs :
                 LET fetched == selectQuestions(heap[o].filterParams, RefillBatch, "",
                                                geminiEnabled, ai, rnd)
                 IN  hostNextResume(o, ai, rnd)
                     => IdsOf(fetched) \cap IdsOf(heap[o].questions) = {}
      ]_vars

\* A hostNext of the unlimited room object o completes in this step: it
\* emits no errorMessage and announces to the room either the next question
\* or gameOver; it is gameOver, with the room finished, exactly when the
\* cursor is past the queue after the replenishment.
ExhaustionHandled(o) ==
    /\ NoErrorMessage(out')
    /\ AnnouncesNext(out', heap[o].id)
    /\ o \in DOMAIN heap'
       => LET exhausted == heap'[o].questionIndex >= Len(heap'[o].questions)
          IN  /\ (out'[1].ev = "gameOver") = exhausted
              /\ (heap'[o].state = "finished") = exhausted

\* The gameOver of this step, if any, carries the number of rounds played:
\* the questions announced for room object o since its only startGame.
RoundsPlayedReported(o) ==
    (AnnouncesNext(out', heap[o].id) /\ out'[1].ev = "gameOver"
        /\ hist[o].startGames = 1)
    => out'[1].payload.totalRounds = hist[o].started

\* A hostNext of room object o completes in this step: a handler that
\* returns without suspending, or a suspended one that resumes.
C27_Completions(o) ==
    LET rid == heap[o].id
    IN  \/ /\ rid \in DOMAIN rooms
           /\ rooms[rid] = o
           /\ \E c \in DOMAIN sockets, rnd \in RndInputs :
                hostNextAccepted(c, rid) /\ hostNext(c, rid, rnd)
           /\ pendingNext'[o] = pendingNext[o]
        \/ /\ pendingNext[o] > 0
           /\ \E ai \in AiInputs, rnd \in RndInputs : hostNextResume(o, ai, rnd)

\* C27: in an unlimited room hostNext moves the room to finished and
\* broadcasts gameOver exactly when questionIndex >= |questions| after the
\* replenishment attempt; the exhaustion produces no errorMessage and its
\* gameOver carries the number of rounds played.
C27_ExhaustionEndsGame ==
    [][\A o \in DOMAIN heap :
        (heap[o].isUnlimited /\ C27_Completions(o))
        => ExhaustionHandled(o) /\ RoundsPlayedReported(o)
      ]_vars

\* Room object o enters a round in this step: it becomes in_question, or it
\* changes while a questionStarted is sent to its room.
EntersRound(o) ==
    /\ o \in DOMAIN heap'
    /\ heap'[o].state = "in_question"
    /\ \/ heap[o].state # "in_question"
       \/ /\ heap'[o] # heap[o]
          /\ Len(out') = 1
          /\ out'[1].ev = "questionStarted"
          /\ out'[1].to = [kind |-> "room", id |-> heap[o].id]

\* C28: every transition of a room into in_question (startGame, a hostNext
\* that does not finish the game) leaves done, finishTimes and answers empty
\* and startTime equal to the time of the transition.
C28_RoundStartsClean ==
    [][\A o \in DOMAIN heap :
        EntersRound(o)
        => /\ heap'[o].done = {}
           /\ heap'[o].finishTimes = EmptyMap
           /\ heap'[o].answers = EmptyMap
           /\ heap'[o].startTime = now
      ]_vars

\* A second round has just started, later than the room's first one, with
\* nothing left of the round before.
C28_Witness ==
    /\ Len(out) = 1
    /\ out[1].ev = "questionStarted"
    /\ now > 1
    /\ \E rid \in DOMAIN rooms :
        /\ out[1].to = [kind |-> "room", id |-> rid]
        /\ Room(rid).state = "in_question"
        /\ Room(rid).questionIndex = 1
        /\ Len(Room(rid).players) > 0
        /\ hist[rooms[rid]].started = 2
        /\ Room(rid).done = {}
        /\ Room(rid).finishTimes = EmptyMap
        /\ Room(rid).answers = EmptyMap
        /\ Room(rid).startTime = now

\* The finishTimes of the showAnswer in `evs` have one entry per player of
\* `room`, and the entry of every player who is done is the elapsed time
\* recorded for that player.
FinishTimesComplete(room, evs) ==
    LET times == evs[1].payload.finishTimes
    IN  /\ Cardinality(DOMAIN times) = Len(room.players)
        /\ \A i \in DOMAIN room.players :
              LET p == room.players[i]
              IN  p.id \in room.done
                  => /\ p.name \in DOMAIN times
                     /\ times[p.name] = room.finishTimes[p.id]

\* C29: the finishTimes of a showAnswer triggered by playerDone have exactly
\* one entry per player in the room at the reveal, and the entry of each
\* player who is done is the elapsed time recorded at that player's
\* playerDone (the clock minus startTime), whatever the names and the
\* elapsed value, 0 included.
C29_FinishTimesPerPlayer ==
    [][\A rid \in DOMAIN rooms :
        \A c \in DOMAIN sockets, answer \in AnswerInputs :
          (/\ playerDoneAccepted(c, rid)
           /\ allDone(recordDone(Room(rid), c, answer, now))
           /\ playerDone(c, rid, answer))
          => /\ Len(out') = 1
             /\ out'[1].ev = "showAnswer"
             /\ heap'[rooms[rid]].finishTimes[c] = now - Room(rid).startTime
             /\ FinishTimesComplete(heap'[rooms[rid]], out')
      ]_vars

\* The tier a returned question came from: 1 the provider, 2 the bank,
\* 3 the fallback generator.
TierOf(sel, q) ==
    IF q.id \in IdsOf(sel.tiers.generated) THEN 1
    ELSE IF q.id \in IdsOf(sel.tiers.fromBank) THEN 2
    ELSE 3

PassesFilters(sel, q) ==
    /\ (sel.params.grade = 0 \/ q.grade = sel.params.grade)
    /\ (sel.params.subject = "" \/ q.subject = sel.params.subject)
    /\ (sel.params.chapter = "" \/ q.chapter = sel.params.chapter)
    /\ (sel.questionType = "" \/ q.type = sel.questionType)

\* C31: every question selectQuestions takes from the static bank matches
\* each non-empty filter among grade, subject, chapter and type exactly, and
\* an empty filter excludes nothing: the bank tier takes as many questions
\* as it needs of those that pass the non-empty filters and were not
\* already selected.
C31_BankFilterExact ==
    \A sel \in Selections :
        LET taken == sel.tiers.fromBank
            eligible == {i \in DOMAIN QUESTION_BANK :
                            /\ PassesFilters(sel, QUESTION_BANK[i])
                            /\ QUESTION_BANK[i].id \notin sel.tiers.exclude1}
            needed == Max(1, sel.rounds) - Len(sel.tiers.generated)
        IN  /\ \A k \in DOMAIN taken :
                  /\ \E i \in DOMAIN QUESTION_BANK : QUESTION_BANK[i] = taken[k]
                  /\ PassesFilters(sel, taken[k])
            /\ Len(taken) = Max(0, Min(needed, Cardinality(eligible)))

\* A call without grade and subject, with a chapter and a type filter, asked
\* for three questions and took the one bank question that passes both.
C31_Witness ==
    \E sel \in Selections :
        /\ sel.params.chapter = "Number Systems"
        /\ sel.questionType = "mcq"
        /\ sel.params.grade = 0
        /\ sel.params.subject = ""
        /\ sel.rounds = 3
        /\ IdsOf(sel.tiers.fromBank) = {BankId(1)}

\* The calls of generateQuestionsFallback recorded by the last step.
FallbackCalls ==
    {out[i].payload : i \in {k \in DOMAIN out : out[k].ev = "generateQuestionsFallback"}}

\* C32: generateQuestionsFallback ends after at most count * 12 attempts,
\* returns at most count questions, none with an id of excludeIds or the id
\* of another returned question, and returns fewer than count, never a
\* duplicate, when every attempt collides.
C32_FallbackBounded ==
    \A call \in FallbackCalls :
        /\ call.attempts <= call.count * AttemptFactor
        /\ Len(call.questions) <= call.count
        /\ IdsOf(call.questions) \cap call.excludeIds = {}
        /\ DistinctIds(call.questions)
        /\ Len(call.questions) < call.count
           => call.attempts = call.count * AttemptFactor
        /\ LivePool \subseteq call.excludeIds => call.questions = <<>>

\* A call for two questions found one id left outside excludeIds: it used
\* all its 24 attempts and returned one question.
C32_Witness ==
    \E call \in FallbackCalls :
        /\ call.count = 2
        /\ Cardinality(LivePool \ call.excludeIds) = 1
        /\ Len(call.questions) = 1
        /\ call.attempts = 2 * AttemptFactor

\* C33: every mcq question that can enter a room's queue (from the built-in
\* bank, a loaded question pack, the provider or the fallback generator)
\* has exactly 4 options and a correctOption in 1..4.
C33_McqWellFormed ==
    \A sel \in Selections :
        \A i \in DOMAIN sel.questions :
            sel.questions[i].type = "mcq"
            => /\ Len(sel.questions[i].options) = 4
               /\ sel.questions[i].correctOption \in 1..4

\* C34: the provider call is bounded by its timeout: no call stays pending
\* past it, and a createRoom whose provider call returns once the timeout has
\* fired emits no error and creates its room with as many questions as
\* requested, none of them from the provider.
C34_LateAnswerDiscarded ==
    [][\A pc \in pendingCreate :
        /\ now - pc.at <= AiTimeout
        /\ (pc \notin pendingCreate' /\ now - pc.at >= AiTimeout)
           => /\ created' = created + 1
              /\ NoErrorMessage(out')
              /\ Len(heap'[created'].questions) = pc.requestedRounds
              /\ \A i \in DOMAIN heap'[created'].questions :
                    heap'[created'].questions[i].source # "AI Generated"
      ]_vars

\* Two rooms were asked for with the provider at time 1; the timeout has
\* fired, one of the rooms has just been created from the bank and the
\* fallback generator, and the other call is about to be aborted.
C34_Witness ==
    /\ now = 1 + AiTimeout
    /\ \E pc \in pendingCreate : pc.at = 1
    /\ Len(out) = 1
    /\ out[1].ev = "roomCreated"
    /\ \E rid \in DOMAIN rooms :
        /\ Room(rid).filterParams.useAi
        /\ Room(rid).state = "waiting"
        /\ \A i \in DOMAIN Room(rid).questions :
              Room(rid).questions[i].source # "AI Generated"

\* What an accepted joinRoom of socket c does to room object o and emits.
JoinEffect(c, o) ==
    /\ ~crashed'
    /\ playerIds(heap'[o]) = playerIds(heap[o]) \cup {c}
    /\ heap'[o].state = heap[o].state
    /\ heap'[o].questionIndex = heap[o].questionIndex
    /\ heap'[o].questions = heap[o].questions
    /\ heap'[o].done = heap[o].done
    /\ heap'[o].finishTimes = heap[o].finishTimes
    /\ heap'[o].answers = heap[o].answers
    /\ Len(out') = 2
    /\ out'[1].ev = "playerListUpdate"
    /\ out'[1].to = [kind |-> "socket", id |-> heap[o].hostId]
    /\ out'[1].rcpt \subseteq {heap[o].hostId}
    /\ out'[2].ev = "joinedRoom"
    /\ out'[2].to = [kind |-> "socket", id |-> c]
    /\ out'[2].rcpt = {c}

\* C35: a joinRoom for a live room from a socket that is not its host is
\* accepted in every room state: it adds exactly the joining socket to
\* players, leaves state, questionIndex, questions, done, finishTimes and
\* answers unchanged, and sends joinedRoom to the joiner only and
\* playerListUpdate to the host only.
C35_JoinAccepted ==
    [][\A c \in DOMAIN sockets, rid \in DOMAIN rooms :
        (/\ Room(rid).hostId # c
         /\ \E name \in NameInputs : joinRoom(c, rid, name))
        => JoinEffect(c, rooms[rid])
      ]_vars

\* C36: once the host of a room has disconnected (the room is deleted from
\* the registry), no questionStarted, showAnswer or gameOver is broadcast to
\* its room id and the deleted room object is not changed any more, even if
\* a hostNext of the room was suspended in its fetch at the disconnect.
C36_DeletedRoomSilent ==
    [][\A o \in DOMAIN heap :
        heap[o].id \notin DOMAIN rooms
        => /\ \A i \in DOMAIN out' :
                ~(/\ out'[i].to = [kind |-> "room", id |-> heap[o].id]
                  /\ out'[i].ev \in {"questionStarted", "showAnswer", "gameOver"})
           /\ o \in DOMAIN heap' => heap'[o] = heap[o]
      ]_vars

\* C37: every room in the registry has a host socket that is still
\* connected; in particular no room is registered for a socket that
\* disconnected while its createRoom was waiting for the selection.
C37_HostConnected ==
    \A rid \in DOMAIN rooms : sockets[Room(rid).hostId] = "open"

\* C38: in every reachable state the totalRounds of a fixed-round room is
\* the number of questions in its queue, so a questionIndex below
\* totalRounds has a question.
C38_RoundsMatchQueue ==
    \A o \in DOMAIN heap :
        ~heap[o].isUnlimited
        => /\ heap[o].totalRounds = Len(heap[o].questions)
           /\ heap[o].questionIndex < heap[o].totalRounds
              => questionInRange(heap[o])

\* The second round of a two-round room has started.
C38_Witness ==
    \E rid \in DOMAIN rooms :
        /\ ~Room(rid).isUnlimited
        /\ Room(rid).totalRounds = 2
        /\ Len(Room(rid).questions) = 2
        /\ Room(rid).questionIndex = 1
        /\ Room(rid).state = "in_question"

\* C39: the totalRounds sent in roomCreated is the round target stored in
\* the room, the totalRounds its questionStarted and showAnswer broadcasts
\* carry later, for fixed-round and for unlimited rooms.
C39_RoomCreatedRounds ==
    \A i \in DOMAIN out :
        out[i].ev = "roomCreated"
        => /\ out[i].payload.roomId \in DOMAIN rooms
           /\ out[i].payload.totalRounds = Room(out[i].payload.roomId).totalRounds
           /\ out[i].payload.totalRounds
                = questionStartedPayload(Room(out[i].payload.roomId)).totalRounds

\* The calls of gemini.generateQuestions recorded by the last step.
GeminiCalls ==
    {out[i].payload : i \in {k \in DOMAIN out : out[k].ev = "generateQuestions"}}

\* Entry q of a response is well formed: a known type, a question, an
\* answer and, for mcq, at least four non-empty options and a correctOption
\* in 1..4.
WellFormed(q) ==
    /\ q.type \in {"long", "short", "mcq", "numerical"}
    /\ q.question # <<>>
    /\ q.answer # <<>>
    /\ q.type = "mcq"
       => /\ Cardinality({i \in DOMAIN q.options : q.options[i] # ""}) >= 4
          /\ q.correctOption \in 1..4

\* The ids the well-formed entries of a response stand for: an entry
\* without an id gets one of its own.
WellFormedIds(arr) ==
    {IF arr[k].id = NoId THEN AiLiveId(k) ELSE arr[k].id :
        k \in {i \in DOMAIN arr : WellFormed(arr[i])}}

\* C40: gemini.generateQuestions returns at most n = min(30, max(1, count))
\* questions with pairwise distinct ids, each of a valid type with a
\* non-empty question and answer; entries of the response that fail
\* validation are skipped and the others are returned, up to n.
C40_GeminiResultValid ==
    \A call \in GeminiCalls :
        LET n == Min(AiMaxCount, Max(1, call.count))
            qs == call.questions
        IN  /\ Len(qs) <= n
            /\ DistinctIds(qs)
            /\ \A i \in DOMAIN qs :
                  /\ qs[i].type \in {"long", "short", "mcq", "numerical"}
                  /\ qs[i].question # <<>>
                  /\ qs[i].answer # <<>>
            /\ Len(qs) = Min(n, Cardinality(WellFormedIds(call.response)))

\* A response of an entry without an answer followed by a well-formed one
\* gave one question, and so did no failure.
C40_Witness ==
    \E call \in GeminiCalls :
        /\ call.count = 2
        /\ Len(call.response) = 2
        /\ call.response[1].answer = <<>>
        /\ WellFormed(call.response[2])
        /\ Len(call.questions) = 1
        /\ call.questions[1].id = call.response[2].id

====
